---- MODULE Spec2Model ----
(***************************************************************************)
(* Verification model of the OSS-Fuzz compliance/deployment orchestrators  *)
(* (master-compliance-deploy.py, enhanced-master-deploy.py,                *)
(* comprehensive-compliance-deploy.py, security-audit-integration.py) and  *)
(* of the crash heuristics engine (lean_crash_analyzer.py).                *)
(*                                                                         *)
(* Each program is a state machine over its own variables (prefix m_ for   *)
(* the Master deployer, e_ for the Enhanced deployer, c_ for the           *)
(* Comprehensive deployer; the engine keeps the attribute names of         *)
(* LeanEmbeddingIntelligence).  One specification per program:             *)
(* SpecMaster, SpecEnhanced, SpecComprehensive, SpecEngine; SpecGate runs  *)
(* either orchestrator that takes audit files.                             *)
(***************************************************************************)
EXTENDS Integers, Sequences, FiniteSets, TLC

VARIABLES
  \* ---- Master deployer (MasterComplianceDeployer + main) ----
  m_mode,        \* CLI mode: "full", "compliance", "build", "deploy"
  m_listing,     \* iterdir() order of the project directories holding a project.yaml
  m_relative,    \* TRUE iff --projects-dir is a relative path
  m_pc,          \* position in main / run_full_deployment
  m_projects,    \* self.projects, keys in insertion order
  m_deps,        \* ProjectConfig.dependencies per project
  m_status,      \* ProjectConfig.status per project
  m_history,     \* per project, the statuses it has been given, oldest first
  m_order,       \* self.deployment_order
  m_i,           \* index of the running phase loop over deployment_order
  m_all,         \* all_compliant / all_valid / all_deployed of the running phase
  m_cwd,         \* process working directory: "orig" or the project chdir'ed into
  m_result,      \* value returned: "none" while running, "true", "false", "raised"
  m_report,      \* number of times compliance-report.json was written
  m_triedC,      \* projects that underwent the compliance check in this invocation
  m_passedC,     \* projects whose compliance check returned True in this invocation
  m_triedB,      \* projects that underwent build validation in this invocation
  m_passedB,     \* projects whose build validation returned True in this invocation
  m_cmdlog,      \* projects whose deployment commands were executed, in order
  \* ---- Comprehensive deployer (ComprehensiveComplianceDeployer) ----
  c_config,      \* self.config (the fields the run reads)
  c_security_processor, \* TRUE iff security_audit_integration could be imported
  c_args,        \* arguments of run_comprehensive_deployment
  c_listing,     \* os.listdir order of the directories holding a project.yaml
  c_relative,    \* TRUE iff projects_dir is a relative path
  c_pc,          \* position in run_comprehensive_deployment
  c_projects,    \* self.projects, keys in insertion order
  c_status,      \* ProjectInfo.status per project
  c_history,     \* per project, the statuses it has held, oldest first
  c_futures,     \* compliance_futures: per project "submitted", "completed", "handled"
  c_completed,   \* projects in the order their compliance checks completed
  c_security_audits, \* self.security_audits
  c_order,       \* self.deployment_order
  c_i,           \* index of the running loop (build loop, deploy loop)
  c_cwd,         \* process working directory: "orig" or the project chdir'ed into
  c_result,      \* value returned: "none" while running, "true", "false", "raised"
  c_report,      \* number of times the final report was written
  c_started,     \* stages entered so far: "compliance", "build", "deploy"
  c_buildlog,    \* <<project, status>> at each call of validate_project_build
  c_cmdlog,      \* projects whose git commands were executed, in order
  \* ---- Enhanced deployer (EnhancedMasterDeployer) ----
  e_config,      \* self.config (the fields the run reads)
  e_security_processor, \* TRUE iff security_audit_integration could be imported
  e_master_deployer,    \* TRUE iff master_compliance_deploy could be imported
  e_args,        \* arguments of run_full_deployment
  e_pc,          \* position in run_full_deployment
  e_f,           \* index of the loop of process_security_audits over audit_files
  e_security_audits,    \* self.security_audits
  e_deployment_blockers, \* self.deployment_blockers
  e_started,     \* stages entered so far: "compliance", "build", "deploy"
  e_result,      \* value returned: "none" while running, "true", "false"
  e_report,      \* number of times enhanced-deployment-report.json was written
  e_raised,      \* the audit files, by number, whose processing raised
  \* ---- Crash heuristics engine (one LeanEmbeddingIntelligence instance) ----
  enable_embeddings,  \* self.config['enable_embeddings']
  daily_budget,       \* self.daily_budget, in units of cost_per_embedding
  current_daily_cost, \* self.current_daily_cost, in units of cost_per_embedding
  embedding_cache,    \* self.embedding_cache: the cache keys that hold a vector
  crash_clusters,     \* self.crash_clusters: dedup key -> number of observations
  disk_daily_cost,    \* today's entry of daily_cost.json
  disk_cache,         \* the keys in embedding_cache.pkl
  l_pc,               \* "ready" for an engine in use, "idle" otherwise
  l_results,          \* the analyses returned so far, oldest first
  l_trace,            \* per analysis: cost before it, cache lookup made, service called
  \* ---- Header remediation of one file (_add_copyright_header) ----
  h_pc,          \* "ready" while a file is remediated, "idle" otherwise
  h_orig,        \* the file before the first application
  h_file,        \* the file on disk
  h_applied,     \* the file after each application so far, oldest first
  h_writes,      \* number of times the file was opened for writing
  \* ---- Compliance phase of the Comprehensive deployer, at file level ----
  k_pc,          \* "pool" inside the "with ThreadPoolExecutor", then "done"
  k_projects,    \* self.projects, keys in insertion order
  k_orig,        \* the files when the phase began
  k_fs,          \* the files: path -> [text, mode]
  k_worker,      \* per project, the position of its check in a worker thread
  k_future,      \* per project, the ComplianceResult its future holds
  k_completed,   \* projects in the order their futures completed
  k_i,           \* number of futures the as_completed loop has taken
  k_main,        \* the main thread: waiting, or inside an open(path, 'w')
  k_status,      \* ProjectInfo.status per project
  k_rechecks,    \* per project, the re-checks made on the main thread
  k_overlap,     \* TRUE once a worker read while the main thread was writing
  k_race,        \* TRUE once a worker read a file another project's fix had open
  \* ---- One function of the programs applied to one input ----
  f_pc,          \* "ready" before the call, "done" after it, "idle" otherwise
  f_in,          \* the argument
  f_out,         \* the value returned
  \* ---- Engine processes that share one cache directory ----
  d_day,         \* the calendar date, time.strftime('%Y-%m-%d'), as a day number
  d_budget,      \* daily_budget of the engines
  d_file,        \* daily_cost.json: a map from dates to costs
  d_pc,          \* per process: "none", "ready", "paid" (line 245 done), "read"
  d_cost,        \* per process: current_daily_cost
  d_data,        \* per process: today and data inside _save_daily_cost
  d_spent        \* per date: the cost paid on it, by earlier processes (0) and by each process

mvars == <<m_mode, m_listing, m_relative, m_pc, m_projects, m_deps, m_status,
           m_history,
           m_order, m_i, m_all, m_cwd, m_result, m_report, m_triedC, m_passedC,
           m_triedB, m_passedB, m_cmdlog>>

cvars == <<c_config, c_security_processor, c_args, c_listing, c_relative, c_pc,
           c_projects, c_status, c_history, c_futures, c_completed,
           c_security_audits, c_order, c_i, c_cwd, c_result, c_report, c_started,
           c_buildlog, c_cmdlog>>

evars == <<e_config, e_security_processor, e_master_deployer, e_args, e_pc, e_f,
           e_security_audits, e_deployment_blockers, e_started, e_result,
           e_report, e_raised>>

lvars == <<enable_embeddings, daily_budget, current_daily_cost, embedding_cache,
           crash_clusters, disk_daily_cost, disk_cache, l_pc, l_results, l_trace>>

hvars == <<h_pc, h_orig, h_file, h_applied, h_writes>>

kvars == <<k_pc, k_projects, k_orig, k_fs, k_worker, k_future, k_completed,
           k_i, k_main, k_status, k_rechecks, k_overlap, k_race>>

fvars == <<f_pc, f_in, f_out>>

dvars == <<d_day, d_budget, d_file, d_pc, d_cost, d_data, d_spent>>

vars == <<mvars, cvars, evars, lvars, hvars, kvars, fvars, dvars>>

\* the variables of the other programs, which a program's steps leave alone
NotMaster == <<cvars, evars, lvars, hvars, kvars, fvars, dvars>>

NotComprehensive == <<mvars, evars, lvars, hvars, kvars, fvars, dvars>>

NotEnhanced == <<mvars, cvars, lvars, hvars, kvars, fvars, dvars>>

NotEngine == <<mvars, cvars, evars, hvars, kvars, fvars, dvars>>

NotHeader == <<mvars, cvars, evars, lvars, kvars, fvars, dvars>>

NotPhase == <<mvars, cvars, evars, lvars, hvars, fvars, dvars>>

NotFunction == <<mvars, cvars, evars, lvars, hvars, kvars, dvars>>

NotCostFile == <<mvars, cvars, evars, lvars, hvars, kvars, fvars>>

(***************************************************************************)
(* Generic helpers                                                         *)
(***************************************************************************)
Range(s) == {s[i] : i \in 1..Len(s)}

Count(s, x) == Cardinality({i \in 1..Len(s) : s[i] = x})

IndexOf(s, x) == CHOOSE i \in 1..Len(s) : s[i] = x

\* p and d both occur in s, p at a smaller index
Before(s, p, d) ==
  /\ p \in Range(s)
  /\ d \in Range(s)
  /\ IndexOf(s, p) < IndexOf(s, d)

\* Python's sorted(..., key=...) / list.sort(key=...): a stable sort
StableSort(s, key) ==
  LET n == Len(s)
      Less(i, j) == \/ key[s[i]] < key[s[j]]
                    \/ (key[s[i]] = key[s[j]] /\ i < j)
      rank(i) == Cardinality({j \in 1..n : Less(j, i)}) + 1
  IN  [r \in 1..n |-> s[CHOOSE i \in 1..n : rank(i) = r]]

\* all sequences without repetition over S of length at most n
Listings(S, n) ==
  {s \in UNION {[1..k -> S] : k \in 0..n} : \A i, j \in 1..Len(s) : i # j => s[i] # s[j]}

(***************************************************************************)
(* Master deployer                                                         *)
(***************************************************************************)
MaxProjects == 3

\* directory names the projects directory may hold
ProjectNames ==
  {"gemini_cli", "gemini-cli", "model-transparency", "g-api-python-tasks",
   "g-api-gemini", "curl"}

\* 'gemini' in project_name.lower()
HasGemini(n) == n \in {"gemini_cli", "gemini-cli", "g-api-gemini"}

\* 'g-api' in project_name.lower()
HasGApi(n) == n \in {"g-api-python-tasks", "g-api-gemini"}

\* self.project_priorities.get(project_name, 999)
project_priorities ==
  [n \in ProjectNames |->
     CASE n = "gemini_cli" -> 1
       [] n = "gemini-cli" -> 2
       [] n = "model-transparency" -> 3
       [] n = "g-api-python-tasks" -> 4
       [] OTHER -> 999]

\* _determine_dependencies(project_name, config), called while self.projects
\* holds the projects discovered so far (the sequence sofar)
determine_dependencies(n, sofar) ==
  LET OtherGemini(o) == o # n /\ HasGemini(o)
  IN  (IF HasGemini(n) THEN SelectSeq(sofar, OtherGemini) ELSE <<>>)
      \o (IF n = "model-transparency" THEN <<"gemini_cli", "gemini-cli">> ELSE <<>>)
      \o (IF HasGApi(n) THEN <<"gemini_cli">> ELSE <<>>)

\* discover_projects: dependencies of every project of the listing
DiscoveredDeps(listing) ==
  [n \in Range(listing) |->
     determine_dependencies(n, SubSeq(listing, 1, IndexOf(listing, n) - 1))]

RECURSIVE SumCount(_, _, _)
\* sum over the nodes of s of the occurrences of d in deps[node]
SumCount(s, deps, d) ==
  IF s = <<>> THEN 0
  ELSE Count(deps[Head(s)], d) + SumCount(Tail(s), deps, d)

RECURSIVE DecrementAll(_, _, _)
\* the "Update in-degrees" loop of _topological_sort for one popped node
DecrementAll(ds, indeg, queue) ==
  IF ds = <<>> THEN [in_degree |-> indeg, queue |-> queue]
  ELSE LET d == Head(ds)
       IN  IF d \in DOMAIN indeg
           THEN LET nd == [indeg EXCEPT ![d] = @ - 1]
                IN  DecrementAll(Tail(ds), nd,
                                 IF nd[d] = 0 THEN Append(queue, d) ELSE queue)
           ELSE DecrementAll(Tail(ds), indeg, queue)

RECURSIVE KahnLoop(_, _, _, _)
\* the while-queue loop of _topological_sort
KahnLoop(queue, indeg, result, graph) ==
  IF queue = <<>> THEN result
  ELSE LET q    == StableSort(queue, project_priorities)
           node == Head(q)
           upd  == DecrementAll(graph[node], indeg, Tail(q))
       IN  KahnLoop(upd.queue, upd.in_degree, Append(result, node), graph)

\* _topological_sort(graph); nodes is the key order of the graph dict
topological_sort(nodes, graph) ==
  LET in_degree == [d \in Range(nodes) |-> SumCount(nodes, graph, d)]
      IsZero(n) == in_degree[n] = 0
  IN  KahnLoop(SelectSeq(nodes, IsZero), in_degree, <<>>, graph)

\* the order left sorted by priority alone
m_priority_order_only(projects, deps) == StableSort(projects, project_priorities)

\* calculate_deployment_order: sort by priority, build the graph, sort
m_calculate_deployment_order(projects, deps) ==
  topological_sort(StableSort(projects, project_priorities), deps)

MModes == {"full", "compliance", "build", "deploy"}

MInit ==
  /\ m_mode \in MModes
  /\ m_listing \in Listings(ProjectNames, MaxProjects)
  /\ m_relative \in BOOLEAN
  /\ m_pc = "start"
  /\ m_projects = <<>>
  /\ m_deps = <<>>
  /\ m_status = <<>>
  /\ m_history = <<>>
  /\ m_order = <<>>
  /\ m_i = 1
  /\ m_all = TRUE
  /\ m_cwd = "orig"
  /\ m_result = "none"
  /\ m_report = 0
  /\ m_triedC = {}
  /\ m_passedC = {}
  /\ m_triedB = {}
  /\ m_passedB = {}
  /\ m_cmdlog = <<>>

\* the phase main enters after calculate_deployment_order
MFirstPhase(mode) ==
  CASE mode = "build" -> "build"
    [] mode = "deploy" -> "deploy"
    [] OTHER -> "compliance"

\* discover_projects, and the "No projects discovered" return of
\* run_full_deployment (which writes no report)
MDiscover ==
  /\ m_pc = "start"
  /\ m_projects' = m_listing
  /\ m_deps' = DiscoveredDeps(m_listing)
  /\ m_status' = [n \in Range(m_listing) |-> "pending"]
  /\ m_history' = [n \in Range(m_listing) |-> <<"pending">>]
  /\ IF m_mode = "full" /\ m_listing = <<>>
       THEN m_pc' = "done" /\ m_result' = "false"
       ELSE m_pc' = "discovered" /\ m_result' = m_result
  /\ UNCHANGED NotMaster
  /\ UNCHANGED <<m_mode, m_listing, m_relative, m_order, m_i, m_all, m_cwd,
                 m_report, m_triedC, m_passedC, m_triedB, m_passedB, m_cmdlog>>

\* calculate_deployment_order
MOrder ==
  /\ m_pc = "discovered"
  /\ m_order' = m_calculate_deployment_order(m_projects, m_deps)
  /\ m_pc' = MFirstPhase(m_mode)
  /\ m_i' = 1
  /\ m_all' = TRUE
  /\ UNCHANGED NotMaster
  /\ UNCHANGED <<m_mode, m_listing, m_relative, m_projects, m_deps, m_status,
                 m_cwd, m_result, m_report, m_triedC, m_passedC, m_triedB, m_passedB,
                 m_cmdlog,
                 m_history>>

\* run_full_deployment goes on to the next phase only if the phase returned
\* True ("if not await self.run_...(): ... return False"); main's single-phase
\* modes stop after their phase
MProceeds_unchecked(mode, phase_ok) == mode = "full"

MProceeds(mode, phase_ok) == mode = "full" /\ phase_ok

\* the statuses the loop body of run_compliance_checks would give a project
\* if it failed it without marking the check first
m_compliance_statuses_unmarked(compliant) ==
  IF compliant THEN <<"compliance_check">> ELSE <<"failed">>

\* the statuses the loop body of run_compliance_checks gives a project, in
\* the order of the assignments
m_compliance_statuses(compliant) ==
  <<"compliance_check">> \o (IF compliant THEN <<>> ELSE <<"failed">>)

\* the last element of a sequence that is not empty
Last(s) == s[Len(s)]

\* one iteration of the loop of run_compliance_checks
MComplianceStep ==
  /\ m_pc = "compliance"
  /\ m_i <= Len(m_order)
  /\ \E compliant \in BOOLEAN :
       LET p == m_order[m_i]
       IN  /\ m_status' = [m_status EXCEPT
                             ![p] = Last(m_compliance_statuses(compliant))]
           /\ m_history' = [m_history EXCEPT
                              ![p] = @ \o m_compliance_statuses(compliant)]
           /\ m_all' = (m_all /\ compliant)
           /\ m_triedC' = m_triedC \cup {p}
           /\ m_passedC' = IF compliant THEN m_passedC \cup {p} ELSE m_passedC
  /\ m_i' = m_i + 1
  /\ UNCHANGED NotMaster
  /\ UNCHANGED <<m_mode, m_listing, m_relative, m_pc, m_projects, m_deps,
                 m_order, m_cwd, m_result, m_report, m_triedB, m_passedB,
                 m_cmdlog>>

\* run_compliance_checks returns all_compliant to run_full_deployment / main
MComplianceEnd ==
  /\ m_pc = "compliance"
  /\ m_i > Len(m_order)
  /\ IF MProceeds(m_mode, m_all)
       THEN /\ m_pc' = "build"
            /\ m_result' = m_result
            /\ m_report' = m_report
       ELSE /\ m_pc' = "done"
            /\ m_result' = IF m_all THEN "true" ELSE "false"
            /\ m_report' = m_report + 1
  /\ m_i' = 1
  /\ m_all' = TRUE
  /\ UNCHANGED NotMaster
  /\ UNCHANGED <<m_mode, m_listing, m_relative, m_projects, m_deps, m_status,
                 m_order, m_cwd, m_triedC, m_passedC, m_triedB, m_passedB, m_cmdlog,
                 m_history>>

\* the test "if not valid:" of run_build_validation
m_build_failed_never(valid) == FALSE

m_build_failed(valid) == ~valid

\* one iteration of the loop of run_build_validation
MBuildStep ==
  /\ m_pc = "build"
  /\ m_i <= Len(m_order)
  /\ LET p == m_order[m_i]
     IN  IF m_status[p] = "failed"
         THEN UNCHANGED <<m_status, m_history, m_all, m_triedB, m_passedB>>
         ELSE \E valid \in BOOLEAN :
                /\ m_status' = [m_status EXCEPT
                                  ![p] = IF m_build_failed(valid)
                                           THEN "failed" ELSE "deployment_ready"]
                /\ m_history' = [m_history EXCEPT
                                   ![p] = @ \o <<"build_validation",
                                                 IF m_build_failed(valid)
                                                   THEN "failed"
                                                   ELSE "deployment_ready">>]
                /\ m_all' = (m_all /\ ~m_build_failed(valid))
                /\ m_triedB' = m_triedB \cup {p}
                /\ m_passedB' = IF valid THEN m_passedB \cup {p} ELSE m_passedB
  /\ m_i' = m_i + 1
  /\ UNCHANGED NotMaster
  /\ UNCHANGED <<m_mode, m_listing, m_relative, m_pc, m_projects, m_deps,
                 m_order, m_cwd, m_result, m_report, m_triedC, m_passedC, m_cmdlog>>

\* run_build_validation returns all_valid to run_full_deployment / main
MBuildEnd ==
  /\ m_pc = "build"
  /\ m_i > Len(m_order)
  /\ IF MProceeds(m_mode, m_all)
       THEN /\ m_pc' = "deploy"
            /\ m_result' = m_result
            /\ m_report' = m_report
       ELSE /\ m_pc' = "done"
            /\ m_result' = IF m_all THEN "true" ELSE "false"
            /\ m_report' = m_report + 1
  /\ m_i' = 1
  /\ m_all' = TRUE
  /\ UNCHANGED NotMaster
  /\ UNCHANGED <<m_mode, m_listing, m_relative, m_projects, m_deps, m_status,
                 m_order, m_cwd, m_triedC, m_passedC, m_triedB, m_passedB, m_cmdlog,
                 m_history>>

\* os.chdir(project.path) of _deploy_project fails when the projects directory
\* is relative and the working directory is no longer the original one
MChdirFails == m_relative /\ m_cwd # "orig"

\* the working directory _deploy_project leaves behind once chdir succeeded:
\* restored to original_cwd only on the success path
m_cwd_after_deploy(p, success, original_cwd) ==
  IF success THEN original_cwd ELSE p

\* deploy_projects skips a project iff its status is FAILED
m_skip_deploy(status) == status = "failed"

\* one iteration of the loop of deploy_projects, with _deploy_project
MDeployStep ==
  /\ m_pc = "deploy"
  /\ m_i <= Len(m_order)
  /\ LET p == m_order[m_i]
     IN  IF m_skip_deploy(m_status[p])
         THEN UNCHANGED <<m_status, m_history, m_all, m_cwd, m_cmdlog>>
         ELSE IF MChdirFails
         THEN /\ m_status' = [m_status EXCEPT ![p] = "failed"]
              /\ m_history' = [m_history EXCEPT ![p] = @ \o <<"deploying", "failed">>]
              /\ m_all' = FALSE
              /\ UNCHANGED <<m_cwd, m_cmdlog>>
         ELSE \E success \in BOOLEAN :
                /\ m_status' = [m_status EXCEPT
                                  ![p] = IF success THEN "online" ELSE "failed"]
                /\ m_history' = [m_history EXCEPT
                                   ![p] = @ \o <<"deploying",
                                                 IF success THEN "online"
                                                            ELSE "failed">>]
                /\ m_all' = (m_all /\ success)
                /\ m_cwd' = m_cwd_after_deploy(p, success, m_cwd)
                /\ m_cmdlog' = Append(m_cmdlog, p)
  /\ m_i' = m_i + 1
  /\ UNCHANGED NotMaster
  /\ UNCHANGED <<m_mode, m_listing, m_relative, m_pc, m_projects, m_deps,
                 m_order, m_result, m_report, m_triedC, m_passedC, m_triedB, m_passedB>>

\* deploy_projects returns all_deployed; the report is written on both paths
MDeployEnd ==
  /\ m_pc = "deploy"
  /\ m_i > Len(m_order)
  /\ m_pc' = "done"
  /\ m_result' = IF m_all THEN "true" ELSE "false"
  /\ m_report' = m_report + 1
  /\ UNCHANGED NotMaster
  /\ UNCHANGED <<m_mode, m_listing, m_relative, m_projects, m_deps, m_status,
                 m_order, m_i, m_all, m_cwd, m_triedC, m_passedC, m_triedB, m_passedB,
                 m_cmdlog,
                 m_history>>

\* an I/O error escaping a compliance or build check (rglob, open): caught by
\* the try of run_full_deployment, which reports and returns False; in the
\* single-phase modes it escapes main.  The project under check keeps the
\* status the loop body gave it before the check
MPhaseRaises ==
  /\ m_pc \in {"compliance", "build"}
  /\ m_i <= Len(m_order)
  /\ m_pc' = "done"
  /\ IF m_mode = "full"
       THEN m_result' = "false" /\ m_report' = m_report + 1
       ELSE m_result' = "raised" /\ m_report' = m_report
  /\ LET p == m_order[m_i]
         marked == IF m_pc = "compliance" THEN "compliance_check"
                                          ELSE "build_validation"
     IN  IF m_pc = "build" /\ m_status[p] = "failed"
         THEN UNCHANGED <<m_status, m_history>>
         ELSE /\ m_status' = [m_status EXCEPT ![p] = marked]
              /\ m_history' = [m_history EXCEPT ![p] = Append(@, marked)]
  /\ UNCHANGED NotMaster
  /\ UNCHANGED <<m_mode, m_listing, m_relative, m_projects, m_deps,
                 m_order, m_i, m_all, m_cwd, m_triedC, m_passedC, m_triedB, m_passedB,
                 m_cmdlog>>

MNext ==
  \/ MDiscover
  \/ MOrder
  \/ MComplianceStep
  \/ MComplianceEnd
  \/ MBuildStep
  \/ MBuildEnd
  \/ MDeployStep
  \/ MDeployEnd
  \/ MPhaseRaises

\* the Master deployer before it is run
MIdle ==
  /\ m_mode = "full"
  /\ m_listing = <<>>
  /\ m_relative = FALSE
  /\ m_pc = "idle"
  /\ m_projects = <<>>
  /\ m_deps = <<>>
  /\ m_status = <<>>
  /\ m_history = <<>>
  /\ m_order = <<>>
  /\ m_i = 1
  /\ m_all = TRUE
  /\ m_cwd = "orig"
  /\ m_result = "none"
  /\ m_report = 0
  /\ m_triedC = {}
  /\ m_passedC = {}
  /\ m_triedB = {}
  /\ m_passedB = {}
  /\ m_cmdlog = <<>>

(***************************************************************************)
(* Master deployer: properties                                             *)
(***************************************************************************)
\* projects whose compliance check / build validation returned False
m_failedC == m_triedC \ m_passedC

m_failedB == m_triedB \ m_passedB

RECURSIVE Acyclic(_, _)
\* the dependency relation deps, restricted to the nodes S, has no cycle
Acyclic(S, deps) ==
  \/ S = {}
  \/ \E n \in S : /\ Range(deps[n]) \cap S = {}
                  /\ Acyclic(S \ {n}, deps)

\* C2: in a full Master deployment, once a project has failed compliance no
\* project undergoes build validation or deployment and the run returns
\* failure; once a project has failed build validation no project is deployed
\* and the run returns failure
C2_FailedPhaseStopsFullRun ==
  m_mode = "full" =>
    /\ m_failedC # {} =>
         /\ m_triedB = {}
         /\ m_cmdlog = <<>>
         /\ m_pc # "build" /\ m_pc # "deploy"
         /\ m_pc = "done" => m_result = "false"
    /\ m_failedB # {} =>
         /\ m_cmdlog = <<>>
         /\ m_pc # "deploy"
         /\ m_pc = "done" => m_result = "false"

\* a full run that ended after one project failed compliance while another
\* one passed it
C2_Witness ==
  /\ m_mode = "full"
  /\ m_pc = "done"
  /\ m_failedC # {}
  /\ m_passedC # {}
  /\ m_result = "false"

OrderIsComplete ==
  /\ m_pc \notin {"start", "discovered"} =>
       /\ Len(m_order) = Len(m_projects)
       /\ Range(m_order) = Range(m_projects)
  /\ m_pc = "done" /\ m_result = "true" =>
       \A p \in Range(m_projects) : m_status[p] # "pending"

\* C37: for every set of discovered projects and every discovery order the
\* Master deployment order holds each discovered project exactly once, so a
\* full run never returns success while a discovered project is still PENDING
C37_OrderHoldsEveryProject ==
  m_mode = "full" => OrderIsComplete

\* the same when the derived dependencies of the discovered projects contain
\* no cycle
C37_AcyclicOrderHoldsEveryProject ==
  m_mode = "full" /\ (m_pc \notin {"start", "discovered"}
                        => Acyclic(Range(m_projects), m_deps))
    => OrderIsComplete

(***************************************************************************)
(* Security audit files (security-audit-integration.py)                    *)
(***************************************************************************)
MaxAuditFiles == 2

\* the word after "**Severity**: " in a vulnerability section; "none" when the
\* section has no such line, "Critical" a word that is not a Severity value
SeverityWords == {"CRITICAL", "HIGH", "LOW", "Critical", "none"}

\* the values of the enum Severity
Severity == {"CRITICAL", "HIGH", "MEDIUM", "LOW", "INFO"}

\* a section "### n. Vulnerability:...": titled iff its first line holds a colon
Section(titled, word) == [titled |-> titled, severity |-> word]

\* audit files: exists is os.path.exists(audit_file), sections the parts that
\* follow each "### n. Vulnerability:" heading
AuditFiles ==
  { [exists |-> FALSE, sections |-> <<>>],
    [exists |-> TRUE,  sections |-> <<>>],
    [exists |-> TRUE,  sections |-> <<Section(TRUE, "CRITICAL")>>],
    [exists |-> TRUE,  sections |-> <<Section(TRUE, "HIGH")>>],
    [exists |-> TRUE,  sections |-> <<Section(FALSE, "CRITICAL")>>],
    [exists |-> TRUE,  sections |-> <<Section(TRUE, "Critical")>>],
    [exists |-> TRUE,  sections |-> <<Section(TRUE, "LOW"), Section(TRUE, "CRITICAL")>>],
    [exists |-> TRUE,  sections |-> <<Section(FALSE, "LOW"), Section(TRUE, "none"),
                                     Section(TRUE, "HIGH")>>] }

\* the audit_files argument: None or a list of files
AuditArgs == UNION {[1..k -> AuditFiles] : k \in 0..MaxAuditFiles}

\* Severity(severity_str), MEDIUM when there is no severity line or on ValueError
parse_severity(word) == IF word \in Severity THEN word ELSE "MEDIUM"

\* f"VULN-{vuln_num:03d}"
vuln_id(vuln_num) ==
  "VULN-" \o (IF vuln_num < 10 THEN "00" ELSE IF vuln_num < 100 THEN "0" ELSE "")
          \o ToString(vuln_num)

RECURSIVE extract_from_numbering_parsed(_, _)
\* a loop that numbers a vulnerability by its place among the parsed ones
extract_from_numbering_parsed(sections, i) ==
  IF i > Len(sections) THEN <<>>
  ELSE (IF sections[i].titled
          THEN <<[id |-> vuln_id(Cardinality({j \in 1..i : sections[j].titled})),
                  severity |-> parse_severity(sections[i].severity)]>>
          ELSE <<>>)
       \o extract_from_numbering_parsed(sections, i + 1)

RECURSIVE extract_from(_, _)
\* the loop of _extract_vulnerabilities from section number i on:
\* _parse_vulnerability_section returns None for an untitled section
extract_from(sections, i) ==
  IF i > Len(sections) THEN <<>>
  ELSE (IF sections[i].titled
          THEN <<[id |-> vuln_id(i), severity |-> parse_severity(sections[i].severity)]>>
          ELSE <<>>)
       \o extract_from(sections, i + 1)

\* _extract_vulnerabilities / parse_markdown_audit(...).vulnerabilities
extract_vulnerabilities(file) == extract_from(file.sections, 1)

\* the blocker create_deployment_blockers makes of a vulnerability
blocker_of(vuln) == [id |-> "BLOCKER-" \o vuln.id, severity |-> vuln.severity]

create_deployment_blockers_critical_only(vulns) ==
  LET Blocks(v) == v.severity = "CRITICAL"
      blocking == SelectSeq(vulns, Blocks)
  IN  [k \in DOMAIN blocking |-> blocker_of(blocking[k])]

\* create_deployment_blockers: one blocker per CRITICAL or HIGH vulnerability
create_deployment_blockers(vulns) ==
  LET Blocks(v) == v.severity \in {"CRITICAL", "HIGH"}
      blocking == SelectSeq(vulns, Blocks)
  IN  [k \in DOMAIN blocking |-> blocker_of(blocking[k])]

\* generate_compliance_report: the audit_metadata and the critical issues
generate_compliance_report(vulns) ==
  LET Critical(v) == v.severity \in {"CRITICAL", "HIGH"}
      critical_issues == SelectSeq(vulns, Critical)
  IN  [ total_vulnerabilities |-> Len(vulns),
        compliance_status |-> IF critical_issues # <<>> THEN "FAILED" ELSE "PASSED",
        critical_issues |-> [k \in DOMAIN critical_issues |-> critical_issues[k].id] ]

\* number of elements of s with the given severity
CountSeverity(s, sev) == Cardinality({i \in 1..Len(s) : s[i].severity = sev})

(***************************************************************************)
(* Comprehensive deployer                                                  *)
(***************************************************************************)
\* directory names the projects directory may hold
CProjectNames == {"bitcoin-core", "curl", "openssl", "nginx"}

\* config["projects"]: priority_order and dependencies.  The first is the
\* default of _create_comprehensive_config restricted to CProjectNames; the
\* others are what a configuration file may hold ("zlib" is never discovered)
ProjectsConfigs ==
  { [priority_order |-> <<"bitcoin-core", "curl", "openssl", "nginx">>,
     dependencies   |-> [n \in CProjectNames |->
                           CASE n = "bitcoin-core" -> <<"openssl">>
                             [] n = "nginx" -> <<"openssl">>
                             [] OTHER -> <<>>]],
    [priority_order |-> <<"nginx">>,
     dependencies   |-> [n \in CProjectNames |->
                           CASE n = "nginx" -> <<"curl", "openssl", "curl">>
                             [] n = "curl" -> <<"openssl">>
                             [] n = "openssl" -> <<"zlib">>
                             [] OTHER -> <<>>]],
    [priority_order |-> <<"openssl", "nginx">>,
     dependencies   |-> [n \in CProjectNames |->
                           CASE n = "openssl" -> <<"nginx">>
                             [] n = "nginx" -> <<"openssl">>
                             [] OTHER -> <<>>]] }

\* the configurations: the defaults of _create_comprehensive_config, with the
\* fields a configuration file may set differently left open
CConfigs ==
  [ security_enabled             : {TRUE},
    block_deployment_on_critical : BOOLEAN,
    compliance_enabled           : {TRUE},
    build_enabled                : {TRUE},
    deployment_enabled           : {TRUE},
    dry_run                      : BOOLEAN,
    projects                     : ProjectsConfigs ]

\* the arguments of run_comprehensive_deployment
CArgs ==
  [ audit_files     : AuditArgs,
    skip_security   : BOOLEAN,
    skip_compliance : BOOLEAN,
    skip_build      : BOOLEAN,
    skip_deploy     : BOOLEAN ]

\* priority_order.index(project_name) if project_name in priority_order else 999
c_priority(cfg) ==
  [n \in CProjectNames |->
     IF n \in Range(cfg.projects.priority_order)
       THEN IndexOf(cfg.projects.priority_order, n) - 1
       ELSE 999]

RECURSIVE dfs(_, _, _, _)
RECURSIVE dfs_deps(_, _, _, _)
\* dfs(node) of calculate_deployment_order; st holds visited, temp_visited,
\* order, and raised once ValueError("Circular dependency detected") was raised
dfs(node, st, projects, graph) ==
  IF st.raised THEN st
  ELSE IF node \in st.temp_visited THEN [st EXCEPT !.raised = TRUE]
  ELSE IF node \in st.visited THEN st
  ELSE LET entered == [st EXCEPT !.temp_visited = @ \cup {node}]
           after   == dfs_deps(graph[node], entered, projects, graph)
       IN  IF after.raised THEN after
           ELSE [after EXCEPT !.temp_visited = @ \ {node},
                              !.visited = @ \cup {node},
                              !.order = Append(@, node)]

\* "for dep in graph.get(node, []): if dep in self.projects: dfs(dep)"
dfs_deps(ds, st, projects, graph) ==
  IF ds = <<>> \/ st.raised THEN st
  ELSE dfs_deps(Tail(ds),
                IF Head(ds) \in projects THEN dfs(Head(ds), st, projects, graph)
                                         ELSE st,
                projects, graph)

RECURSIVE dfs_all(_, _, _, _)
\* "for project in sorted_projects: if project not in visited: dfs(project)"
dfs_all(sorted_projects, st, projects, graph) ==
  IF sorted_projects = <<>> \/ st.raised THEN st
  ELSE dfs_all(Tail(sorted_projects),
               dfs(Head(sorted_projects), st, projects, graph), projects, graph)

\* the order left sorted by priority alone
c_priority_order_only(projects, priority, graph) ==
  [visited |-> Range(projects), temp_visited |-> {},
   order |-> StableSort(projects, priority), raised |-> FALSE]

\* calculate_deployment_order: .order is the result, .raised tells ValueError
c_calculate_deployment_order(projects, priority, graph) ==
  dfs_all(StableSort(projects, priority),
          [visited |-> {}, temp_visited |-> {}, order |-> <<>>, raised |-> FALSE],
          Range(projects), graph)

\* the Comprehensive deployer after construction, before the run
CInitRun ==
  /\ c_pc = "start"
  /\ c_projects = <<>>
  /\ c_status = <<>>
  /\ c_history = <<>>
  /\ c_futures = <<>>
  /\ c_completed = <<>>
  /\ c_security_audits = <<>>
  /\ c_order = <<>>
  /\ c_i = 1
  /\ c_cwd = "orig"
  /\ c_result = "none"
  /\ c_report = 0
  /\ c_started = {}
  /\ c_buildlog = {}
  /\ c_cmdlog = <<>>

\* runs without audit files, under every combination of skip flags
CInit ==
  /\ c_config \in {cfg \in CConfigs : cfg.block_deployment_on_critical}
  /\ c_security_processor = FALSE
  /\ c_args \in {a \in CArgs : a.audit_files = <<>>}
  /\ c_listing \in Listings(CProjectNames, MaxProjects)
  /\ c_relative \in BOOLEAN
  /\ CInitRun

\* runs with audit files on a projects directory of at most one project, no
\* stage but the security gate skipped
CInitGate ==
  /\ c_config \in {cfg \in CConfigs :
                     cfg.projects.priority_order[1] = "bitcoin-core"}
  /\ c_security_processor \in BOOLEAN
  /\ c_args \in {a \in CArgs :
                   ~a.skip_compliance /\ ~a.skip_build /\ ~a.skip_deploy}
  /\ c_listing \in Listings(CProjectNames, 1)
  /\ c_relative = FALSE
  /\ CInitRun

\* the Comprehensive deployer when another program is run
CIdle ==
  /\ c_config \in {cfg \in CConfigs :
                     /\ cfg.block_deployment_on_critical
                     /\ ~cfg.dry_run
                     /\ cfg.projects.priority_order[1] = "bitcoin-core"}
  /\ c_security_processor = FALSE
  /\ c_args = [audit_files |-> <<>>, skip_security |-> FALSE,
               skip_compliance |-> FALSE, skip_build |-> FALSE,
               skip_deploy |-> FALSE]
  /\ c_listing = <<>>
  /\ c_relative = FALSE
  /\ c_pc = "idle"
  /\ c_projects = <<>>
  /\ c_status = <<>>
  /\ c_history = <<>>
  /\ c_futures = <<>>
  /\ c_completed = <<>>
  /\ c_security_audits = <<>>
  /\ c_order = <<>>
  /\ c_i = 1
  /\ c_cwd = "orig"
  /\ c_result = "none"
  /\ c_report = 0
  /\ c_started = {}
  /\ c_buildlog = {}
  /\ c_cmdlog = <<>>

RECURSIVE c_audit_results(_, _, _)
\* the loop of process_security_audits from file number i on: a missing file
\* is skipped, and so is a file whose processing raises (raises[i]: the file
\* cannot be read or the audit data cannot be saved)
c_audit_results(files, raises, i) ==
  IF i > Len(files) THEN <<>>
  ELSE (IF files[i].exists /\ ~raises[i]
          THEN LET vulns == extract_vulnerabilities(files[i])
               IN  <<[audit_file |-> i,
                      vulnerabilities_found |-> Len(vulns),
                      critical_vulnerabilities |-> CountSeverity(vulns, "CRITICAL"),
                      high_vulnerabilities |-> CountSeverity(vulns, "HIGH")]>>
          ELSE <<>>)
       \o c_audit_results(files, raises, i + 1)

\* process_security_audits(audit_files)
c_process_security_audits(files, processor, raises) ==
  IF ~processor \/ files = <<>> THEN <<>>
  ELSE c_audit_results(files, raises, 1)

RECURSIVE SumCritical(_)
\* sum(r.critical_vulnerabilities for r in security_results)
SumCritical(results) ==
  IF results = <<>> THEN 0
  ELSE Head(results).critical_vulnerabilities + SumCritical(Tail(results))

\* Step 1: discover_projects; "No projects found" returns False at once
CDiscover ==
  /\ c_pc = "start"
  /\ c_projects' = c_listing
  /\ c_status' = [n \in Range(c_listing) |-> "PENDING"]
  /\ c_history' = [n \in Range(c_listing) |-> <<"PENDING">>]
  /\ IF c_listing = <<>>
       THEN c_pc' = "done" /\ c_result' = "false"
       ELSE c_pc' = "security" /\ c_result' = c_result
  /\ UNCHANGED NotComprehensive
  /\ UNCHANGED <<c_config, c_security_processor, c_args, c_listing, c_relative,
                 c_futures, c_completed, c_security_audits, c_order, c_i, c_cwd,
                 c_report, c_started, c_buildlog, c_cmdlog>>

\* Step 2: the security gate
CSecurity ==
  /\ c_pc = "security"
  /\ IF ~c_args.skip_security /\ c_config.security_enabled /\ c_args.audit_files # <<>>
       THEN \E raises \in [1..Len(c_args.audit_files) -> BOOLEAN] :
              LET security_results ==
                    c_process_security_audits(c_args.audit_files,
                                              c_security_processor, raises)
                  critical_blockers == SumCritical(security_results)
              IN  /\ c_security_audits' = security_results
                  /\ IF critical_blockers > 0 /\ c_config.block_deployment_on_critical
                       THEN c_pc' = "done" /\ c_result' = "false"
                       ELSE c_pc' = "compliance" /\ c_result' = c_result
       ELSE /\ c_pc' = "compliance"
            /\ UNCHANGED <<c_security_audits, c_result>>
  /\ UNCHANGED NotComprehensive
  /\ UNCHANGED <<c_config, c_security_processor, c_args, c_listing, c_relative,
                 c_projects, c_status, c_history, c_futures, c_completed, c_order,
                 c_i, c_cwd, c_report, c_started, c_buildlog, c_cmdlog>>

\* Step 3 is run iff this holds
c_compliance_runs == ~c_args.skip_compliance /\ c_config.compliance_enabled

\* Step 3, entry: every project's check is submitted to the pool
CComplianceSubmit ==
  /\ c_pc = "compliance"
  /\ IF c_compliance_runs
       THEN /\ c_futures' = [n \in Range(c_projects) |-> "submitted"]
            /\ c_started' = c_started \cup {"compliance"}
            /\ c_pc' = "as_completed"
       ELSE /\ c_pc' = "build"
            /\ UNCHANGED <<c_futures, c_started>>
  /\ c_completed' = <<>>
  /\ c_i' = 1
  /\ UNCHANGED NotComprehensive
  /\ UNCHANGED <<c_config, c_security_processor, c_args, c_listing, c_relative,
                 c_projects, c_status, c_history, c_security_audits, c_order,
                 c_cwd, c_result, c_report, c_buildlog, c_cmdlog>>

\* a worker thread finishes check_project_compliance(project)
CWorkerCheck(p) ==
  /\ c_pc = "as_completed"
  /\ c_futures[p] = "submitted"
  /\ c_futures' = [c_futures EXCEPT ![p] = "completed"]
  /\ c_completed' = Append(c_completed, p)
  /\ UNCHANGED NotComprehensive
  /\ UNCHANGED <<c_config, c_security_processor, c_args, c_listing, c_relative,
                 c_pc, c_projects, c_status, c_history, c_security_audits,
                 c_order, c_i, c_cwd, c_result, c_report, c_started, c_buildlog,
                 c_cmdlog>>

\* the status the as_completed loop body gives a project: raises is an
\* exception from future.result(), the fix or the re-check; success the first
\* result; fixed the value of fix_compliance_issues; recheck the second result
c_compliance_status(raises, success, fixed, recheck) ==
  IF raises THEN "COMPLIANCE_FAILED"
  ELSE IF success THEN "COMPLIANCE_PASSED"
  ELSE IF fixed /\ recheck THEN "COMPLIANCE_PASSED"
  ELSE "COMPLIANCE_FAILED"

\* Step 3, one iteration of "for future in as_completed(...)" on the main thread
CHandleFuture ==
  /\ c_pc = "as_completed"
  /\ c_i <= Len(c_completed)
  /\ LET p == c_completed[c_i]
     IN  /\ \E raises, success, fixed, recheck \in BOOLEAN :
               LET st == c_compliance_status(raises, success, fixed, recheck)
               IN  /\ c_status' = [c_status EXCEPT ![p] = st]
                   /\ c_history' = [c_history EXCEPT ![p] = Append(@, st)]
         /\ c_futures' = [c_futures EXCEPT ![p] = "handled"]
  /\ c_i' = c_i + 1
  /\ UNCHANGED NotComprehensive
  /\ UNCHANGED <<c_config, c_security_processor, c_args, c_listing, c_relative,
                 c_pc, c_projects, c_completed, c_security_audits, c_order,
                 c_cwd, c_result, c_report, c_started, c_buildlog, c_cmdlog>>

\* Step 3, exit: every future was handled and the pool is shut down
CComplianceEnd ==
  /\ c_pc = "as_completed"
  /\ \A n \in Range(c_projects) : c_futures[n] = "handled"
  /\ c_pc' = "build"
  /\ c_futures' = <<>>
  /\ c_completed' = <<>>
  /\ c_i' = 1
  /\ UNCHANGED NotComprehensive
  /\ UNCHANGED <<c_config, c_security_processor, c_args, c_listing, c_relative,
                 c_projects, c_status, c_history, c_security_audits, c_order,
                 c_cwd, c_result, c_report, c_started, c_buildlog, c_cmdlog>>

\* Step 4 is run iff this holds
c_build_runs == ~c_args.skip_build /\ c_config.build_enabled

\* Step 4 validates a project's build iff this holds
c_build_applies_unless_failed(status) == status # "COMPLIANCE_FAILED"

c_build_applies(status) == status = "COMPLIANCE_PASSED"

\* Step 4, one iteration of "for project in self.projects.values()"
CBuildStep ==
  /\ c_pc = "build"
  /\ c_build_runs
  /\ c_i <= Len(c_projects)
  /\ LET p == c_projects[c_i]
     IN  IF c_build_applies(c_status[p])
         THEN \E valid \in BOOLEAN :
                LET st == IF valid THEN "BUILD_VALIDATED" ELSE "BUILD_FAILED"
                IN  /\ c_status' = [c_status EXCEPT ![p] = st]
                    /\ c_history' = [c_history EXCEPT ![p] = Append(@, st)]
                    /\ c_buildlog' = c_buildlog \cup {<<p, c_status[p]>>}
         ELSE UNCHANGED <<c_status, c_history, c_buildlog>>
  /\ c_started' = c_started \cup {"build"}
  /\ c_i' = c_i + 1
  /\ UNCHANGED NotComprehensive
  /\ UNCHANGED <<c_config, c_security_processor, c_args, c_listing, c_relative,
                 c_pc, c_projects, c_futures, c_completed, c_security_audits,
                 c_order, c_cwd, c_result, c_report, c_cmdlog>>

\* Step 4 is over, or is skipped
CBuildEnd ==
  /\ c_pc = "build"
  /\ ~c_build_runs \/ c_i > Len(c_projects)
  /\ c_pc' = "order"
  /\ c_i' = 1
  /\ UNCHANGED NotComprehensive
  /\ UNCHANGED <<c_config, c_security_processor, c_args, c_listing, c_relative,
                 c_projects, c_status, c_history, c_futures, c_completed,
                 c_security_audits, c_order, c_cwd, c_result, c_report,
                 c_started, c_buildlog, c_cmdlog>>

\* Step 5: calculate_deployment_order; its ValueError is caught nowhere
COrder ==
  /\ c_pc = "order"
  /\ LET r == c_calculate_deployment_order(c_projects, c_priority(c_config),
                                           c_config.projects.dependencies)
     IN  IF r.raised
         THEN /\ c_pc' = "done"
              /\ c_result' = "raised"
              /\ c_order' = c_order
         ELSE /\ c_pc' = "deploy"
              /\ c_result' = c_result
              /\ c_order' = r.order
  /\ c_i' = 1
  /\ UNCHANGED NotComprehensive
  /\ UNCHANGED <<c_config, c_security_processor, c_args, c_listing, c_relative,
                 c_projects, c_status, c_history, c_futures, c_completed,
                 c_security_audits, c_cwd, c_report, c_started, c_buildlog,
                 c_cmdlog>>

\* Step 6 is run iff this holds
c_deploy_runs == ~c_args.skip_deploy /\ c_config.deployment_enabled

\* Step 6 deploys a project iff this holds
c_deploy_applies_unless_failed(status) == status \notin {"COMPLIANCE_FAILED", "BUILD_FAILED"}

c_deploy_applies(status) == status = "BUILD_VALIDATED"

\* os.chdir(project.path) of deploy_project fails when projects_dir is
\* relative and the working directory is no longer the original one
CChdirFails == c_relative /\ c_cwd # "orig"

\* the project taken when the deployment order is walked from its end
c_deploy_target_backwards(deployment_order, i) ==
  deployment_order[Len(deployment_order) + 1 - i]

\* the project iteration number i of "for project_name in deployment_order"
\* takes
c_deploy_target(deployment_order, i) == deployment_order[i]

\* Step 6, one iteration of "for project_name in deployment_order", with
\* deploy_project (which never restores the working directory)
CDeployStep ==
  /\ c_pc = "deploy"
  /\ c_deploy_runs
  /\ c_i <= Len(c_order)
  /\ LET p == c_deploy_target(c_order, c_i)
         Finish(st) ==
           /\ c_status' = [c_status EXCEPT ![p] = st]
           /\ c_history' = [c_history EXCEPT ![p] = @ \o <<"READY", st>>]
     IN  IF ~c_deploy_applies(c_status[p])
         THEN UNCHANGED <<c_status, c_history, c_cwd, c_cmdlog>>
         ELSE IF c_config.dry_run
         THEN Finish("DEPLOYED") /\ UNCHANGED <<c_cwd, c_cmdlog>>
         ELSE IF CChdirFails
         THEN Finish("DEPLOYMENT_FAILED") /\ UNCHANGED <<c_cwd, c_cmdlog>>
         ELSE \E pushed \in BOOLEAN :
                /\ Finish(IF pushed THEN "DEPLOYED" ELSE "DEPLOYMENT_FAILED")
                /\ c_cwd' = p
                /\ c_cmdlog' = Append(c_cmdlog, p)
  /\ c_started' = c_started \cup {"deploy"}
  /\ c_i' = c_i + 1
  /\ UNCHANGED NotComprehensive
  /\ UNCHANGED <<c_config, c_security_processor, c_args, c_listing, c_relative,
                 c_pc, c_projects, c_futures, c_completed, c_security_audits,
                 c_order, c_result, c_report, c_buildlog>>

\* Step 6 is over, or is skipped: _generate_final_report, return True
CReport ==
  /\ c_pc = "deploy"
  /\ ~c_deploy_runs \/ c_i > Len(c_order)
  /\ c_pc' = "done"
  /\ c_report' = c_report + 1
  /\ c_result' = "true"
  /\ UNCHANGED NotComprehensive
  /\ UNCHANGED <<c_config, c_security_processor, c_args, c_listing, c_relative,
                 c_projects, c_status, c_history, c_futures, c_completed,
                 c_security_audits, c_order, c_i, c_cwd, c_started, c_buildlog,
                 c_cmdlog>>

CNext ==
  \/ CDiscover
  \/ CSecurity
  \/ CComplianceSubmit
  \/ \E p \in Range(c_projects) : CWorkerCheck(p)
  \/ CHandleFuture
  \/ CComplianceEnd
  \/ CBuildStep
  \/ CBuildEnd
  \/ COrder
  \/ CDeployStep
  \/ CReport

(***************************************************************************)
(* Enhanced deployer                                                       *)
(***************************************************************************)
\* the configurations: the defaults of _create_default_config, with the
\* fields a configuration file may set differently left open
EConfigs ==
  [ security_audit_enabled       : {TRUE},
    block_deployment_on_critical : BOOLEAN,
    block_deployment_on_high     : BOOLEAN,
    require_security_review      : BOOLEAN,
    compliance_enabled           : {TRUE},
    deployment_enabled           : {TRUE},
    dry_run                      : BOOLEAN ]

\* the arguments of run_full_deployment
EArgs ==
  [ audit_files     : AuditArgs,
    skip_security   : BOOLEAN,
    skip_compliance : BOOLEAN,
    skip_build      : BOOLEAN,
    skip_deploy     : BOOLEAN ]

\* the Enhanced deployer after construction, before the run
EInit ==
  /\ e_config \in EConfigs
  /\ e_security_processor \in BOOLEAN
  /\ e_master_deployer \in BOOLEAN
  /\ e_args \in EArgs
  /\ e_pc = "start"
  /\ e_f = 1
  /\ e_security_audits = <<>>
  /\ e_deployment_blockers = <<>>
  /\ e_started = {}
  /\ e_result = "none"
  /\ e_report = 0
  /\ e_raised = {}

\* the Enhanced deployer when another program is run
EIdle ==
  /\ e_config = [security_audit_enabled |-> TRUE,
                 block_deployment_on_critical |-> TRUE,
                 block_deployment_on_high |-> FALSE,
                 require_security_review |-> TRUE,
                 compliance_enabled |-> TRUE,
                 deployment_enabled |-> TRUE,
                 dry_run |-> FALSE]
  /\ e_security_processor = FALSE
  /\ e_master_deployer = FALSE
  /\ e_args = [audit_files |-> <<>>, skip_security |-> FALSE,
               skip_compliance |-> FALSE, skip_build |-> FALSE,
               skip_deploy |-> FALSE]
  /\ e_pc = "idle"
  /\ e_f = 1
  /\ e_security_audits = <<>>
  /\ e_deployment_blockers = <<>>
  /\ e_started = {}
  /\ e_result = "none"
  /\ e_report = 0
  /\ e_raised = {}

\* Step 1, entry: process_security_audits is called iff security is not
\* skipped and audit files were given; without a processor it returns True
ESecurity ==
  /\ e_pc = "start"
  /\ IF /\ ~e_args.skip_security
        /\ e_config.security_audit_enabled
        /\ e_args.audit_files # <<>>
        /\ e_security_processor
       THEN e_pc' = "audits"
       ELSE e_pc' = "compliance"
  /\ e_f' = 1
  /\ UNCHANGED NotEnhanced
  /\ UNCHANGED <<e_config, e_security_processor, e_master_deployer, e_args,
                 e_security_audits, e_deployment_blockers, e_started, e_result,
                 e_report,
                 e_raised>>

\* the outcome of the loop body of process_security_audits for the blockers
\* of one audit: "blocked" is "return False"
e_gate(cfg, blockers) ==
  IF cfg.block_deployment_on_critical /\ CountSeverity(blockers, "CRITICAL") > 0
    THEN "blocked"
  ELSE IF cfg.block_deployment_on_high /\ CountSeverity(blockers, "HIGH") > 0
    THEN "blocked"
  ELSE "continue"

\* Step 1, one iteration of "for audit_file in audit_files"
EAuditFile ==
  /\ e_pc = "audits"
  /\ e_f <= Len(e_args.audit_files)
  /\ LET file == e_args.audit_files[e_f]
         Return(ok) == e_pc' = "done" /\ e_result' = (IF ok THEN "true" ELSE "false")
         Continue == UNCHANGED <<e_pc, e_result>>
     IN  IF ~file.exists
         THEN Continue /\ UNCHANGED <<e_deployment_blockers, e_raised>>
         ELSE \E raises \in BOOLEAN :
                IF raises
                THEN /\ UNCHANGED e_deployment_blockers
                     /\ e_raised' = e_raised \cup {e_f}
                     /\ IF e_config.require_security_review
                          THEN Return(FALSE) ELSE Continue
                ELSE LET blockers ==
                           create_deployment_blockers(extract_vulnerabilities(file))
                     IN  /\ e_deployment_blockers' = e_deployment_blockers \o blockers
                         /\ UNCHANGED e_raised
                         /\ IF e_gate(e_config, blockers) = "blocked"
                              THEN Return(FALSE) ELSE Continue
  /\ e_f' = e_f + 1
  /\ UNCHANGED NotEnhanced
  /\ UNCHANGED <<e_config, e_security_processor, e_master_deployer, e_args,
                 e_security_audits, e_started, e_report>>

\* Step 1, exit: process_security_audits returns True
EAuditsEnd ==
  /\ e_pc = "audits"
  /\ e_f > Len(e_args.audit_files)
  /\ e_pc' = "compliance"
  /\ UNCHANGED NotEnhanced
  /\ UNCHANGED <<e_config, e_security_processor, e_master_deployer, e_args, e_f,
                 e_security_audits, e_deployment_blockers, e_started, e_result,
                 e_report,
                 e_raised>>

\* the public methods of MasterComplianceDeployer; each takes self only
MasterMethods ==
  {"discover_projects", "calculate_deployment_order", "run_compliance_checks",
   "run_build_validation", "deploy_projects", "generate_compliance_report",
   "run_full_deployment"}

\* the method of self.master_deployer a stage calls, with projects_dir
e_called_method(stage) ==
  CASE stage = "compliance" -> "check_compliance"
    [] stage = "build" -> "validate_builds"
    [] stage = "deploy" -> "deploy_projects"

\* self.master_deployer.<method>(projects_dir)
master_call(stage) ==
  IF e_called_method(stage) \notin MasterMethods THEN "AttributeError"
  ELSE "TypeError"

\* what the call on the Master deployer object does: check_compliance and
\* validate_builds are no methods of MasterComplianceDeployer (AttributeError)
\* and its deploy_projects takes no projects_dir (TypeError)
e_master_call(stage) ==
  IF master_call(stage) \in {"AttributeError", "TypeError"} THEN "raises"
  ELSE "success"

\* run_compliance_checks / run_build_validation / deploy_projects: True
\* without a Master deployer, else the try around the call on it
e_delegate(master_deployer, stage) ==
  IF ~master_deployer THEN TRUE
  ELSE e_master_call(stage) = "success"

\* where run_full_deployment goes on after a stage whatever it returned
e_next_pc_ignoring_failure(stage, ok) ==
  CASE stage = "compliance" -> "build"
    [] stage = "build" -> "deploy"
    [] stage = "deploy" -> "report"

\* where run_full_deployment goes on after a stage returned ok:
\* "if not self.run_...(): ... return False"
e_next_pc(stage, ok) ==
  IF ~ok THEN "done"
  ELSE CASE stage = "compliance" -> "build"
         [] stage = "build" -> "deploy"
         [] stage = "deploy" -> "report"

\* the value run_full_deployment has returned after a stage returned ok
e_stage_result(result, ok) == IF ok THEN result ELSE "false"

\* Step 2: run_compliance_checks
ECompliance ==
  /\ e_pc = "compliance"
  /\ IF ~e_args.skip_compliance /\ e_config.compliance_enabled
       THEN /\ e_started' = e_started \cup {"compliance"}
            /\ e_pc' = e_next_pc("compliance",
                                  e_delegate(e_master_deployer, "compliance"))
            /\ e_result' = e_stage_result(e_result,
                                  e_delegate(e_master_deployer, "compliance"))
       ELSE /\ e_pc' = "build"
            /\ UNCHANGED <<e_started, e_result>>
  /\ UNCHANGED NotEnhanced
  /\ UNCHANGED <<e_config, e_security_processor, e_master_deployer, e_args, e_f,
                 e_security_audits, e_deployment_blockers, e_report,
                 e_raised>>

\* Step 3: run_build_validation
EBuild ==
  /\ e_pc = "build"
  /\ IF ~e_args.skip_build /\ e_config.deployment_enabled
       THEN /\ e_started' = e_started \cup {"build"}
            /\ e_pc' = e_next_pc("build", e_delegate(e_master_deployer, "build"))
            /\ e_result' = e_stage_result(e_result,
                                  e_delegate(e_master_deployer, "build"))
       ELSE /\ e_pc' = "deploy"
            /\ UNCHANGED <<e_started, e_result>>
  /\ UNCHANGED NotEnhanced
  /\ UNCHANGED <<e_config, e_security_processor, e_master_deployer, e_args, e_f,
                 e_security_audits, e_deployment_blockers, e_report,
                 e_raised>>

\* Step 4: deploy_projects (a dry run returns True before the call)
EDeploy ==
  /\ e_pc = "deploy"
  /\ IF ~e_args.skip_deploy /\ e_config.deployment_enabled
       THEN /\ e_started' = e_started \cup {"deploy"}
            /\ e_pc' = e_next_pc("deploy",
                                  \/ e_master_deployer /\ e_config.dry_run
                                  \/ e_delegate(e_master_deployer, "deploy"))
            /\ e_result' = e_stage_result(e_result,
                                  \/ e_master_deployer /\ e_config.dry_run
                                  \/ e_delegate(e_master_deployer, "deploy"))
       ELSE /\ e_pc' = "report"
            /\ UNCHANGED <<e_started, e_result>>
  /\ UNCHANGED NotEnhanced
  /\ UNCHANGED <<e_config, e_security_processor, e_master_deployer, e_args, e_f,
                 e_security_audits, e_deployment_blockers, e_report,
                 e_raised>>

\* generate_security_report, the report file, return True
EReport ==
  /\ e_pc = "report"
  /\ e_pc' = "done"
  /\ e_report' = e_report + 1
  /\ e_result' = "true"
  /\ UNCHANGED NotEnhanced
  /\ UNCHANGED <<e_config, e_security_processor, e_master_deployer, e_args, e_f,
                 e_security_audits, e_deployment_blockers, e_started,
                 e_raised>>

ENext ==
  \/ ESecurity
  \/ EAuditFile
  \/ EAuditsEnd
  \/ ECompliance
  \/ EBuild
  \/ EDeploy
  \/ EReport

(***************************************************************************)
(* Comprehensive deployer: properties                                      *)
(***************************************************************************)
\* the statuses a, b, c, d occur in the history h in this order
HeldInOrder(h, a, b, c, d) ==
  \E i, j, k, l \in 1..Len(h) :
    /\ i < j /\ j < k /\ k < l
    /\ h[i] = a /\ h[j] = b /\ h[k] = c /\ h[l] = d

\* C4: in a Comprehensive full run, under any combination of skip flags, build
\* validation is applied only to projects whose status is COMPLIANCE_PASSED; a
\* project is DEPLOYED only after holding COMPLIANCE_PASSED, BUILD_VALIDATED
\* and READY in this order; a project that reached COMPLIANCE_FAILED or
\* BUILD_FAILED is never deployed
C4_StatusGatesBuildAndDeploy ==
  /\ \A b \in c_buildlog : b[2] = "COMPLIANCE_PASSED"
  /\ \A p \in Range(c_projects) :
       /\ "DEPLOYED" \in Range(c_history[p]) =>
            HeldInOrder(c_history[p], "COMPLIANCE_PASSED", "BUILD_VALIDATED",
                        "READY", "DEPLOYED")
       /\ ({"COMPLIANCE_FAILED", "BUILD_FAILED"} \cap Range(c_history[p]) # {}) =>
            /\ "DEPLOYED" \notin Range(c_history[p])
            /\ "READY" \notin Range(c_history[p])
            /\ p \notin Range(c_cmdlog)

\* a finished run in which one project was deployed by git commands, one
\* failed compliance and one failed build validation
C4_Witness ==
  /\ c_pc = "done"
  /\ \E p, q, r \in Range(c_projects) :
       /\ c_status[p] = "DEPLOYED" /\ p \in Range(c_cmdlog)
       /\ c_status[q] = "COMPLIANCE_FAILED"
       /\ c_status[r] = "BUILD_FAILED"

\* calculate_deployment_order has returned
c_order_computed == c_pc = "deploy" \/ (c_pc = "done" /\ c_result = "true")

\* C5: for any discovered projects whose configured dependencies are acyclic,
\* the Comprehensive order is computed (no circular-dependency error), holds
\* every discovered project exactly once and places every discovered
\* dependency of a project before that project
C5_DependenciesFirst ==
  Acyclic(Range(c_projects), c_config.projects.dependencies) =>
    /\ c_result # "raised"
    /\ c_order_computed =>
         /\ Len(c_order) = Len(c_projects)
         /\ Range(c_order) = Range(c_projects)
         /\ \A p \in Range(c_projects) :
              \A d \in Range(c_config.projects.dependencies[p]) \cap Range(c_projects) :
                Before(c_order, d, p)

\* an order was computed in which a dependency of worse (larger) priority
\* number comes before the project that declares it
C5_Witness ==
  /\ c_order_computed
  /\ Acyclic(Range(c_projects), c_config.projects.dependencies)
  /\ \E p, d \in Range(c_projects) :
       /\ d \in Range(c_config.projects.dependencies[p])
       /\ c_priority(c_config)[d] > c_priority(c_config)[p]
       /\ Before(c_order, d, p)

(***************************************************************************)
(* Security gate of the Enhanced and Comprehensive deployers: properties   *)
(***************************************************************************)
\* some supplied audit file exists and holds a titled vulnerability section
\* whose severity line reads CRITICAL
SuppliesCritical(files) ==
  \E i \in 1..Len(files) :
    /\ files[i].exists
    /\ \E k \in 1..Len(files[i].sections) :
         /\ files[i].sections[k].titled
         /\ files[i].sections[k].severity = "CRITICAL"

\* the Enhanced run is a full run with the default configuration's gate
\* settings and the security step not skipped
e_default_gate ==
  /\ e_pc # "idle"
  /\ ~e_args.skip_security
  /\ e_config.security_audit_enabled
  /\ e_config.block_deployment_on_critical
  /\ ~e_config.block_deployment_on_high
  /\ e_config.require_security_review

\* likewise for the Comprehensive run
c_default_gate ==
  /\ c_pc # "idle"
  /\ ~c_args.skip_security
  /\ c_config.security_enabled
  /\ c_config.block_deployment_on_critical

\* C1: with the default configuration (block on CRITICAL), when a supplied
\* audit file contains a CRITICAL vulnerability, the full run of the Enhanced
\* and of the Comprehensive deployer reports failure, and no compliance check,
\* build validation or deployment has been started
C1_CriticalAuditBlocksRun ==
  /\ (e_default_gate /\ SuppliesCritical(e_args.audit_files)) =>
       /\ e_started = {}
       /\ e_pc = "done" => e_result = "false"
  /\ (c_default_gate /\ SuppliesCritical(c_args.audit_files)) =>
       /\ c_started = {}
       /\ c_pc = "done" => c_result = "false"

(***************************************************************************)
(* Crash heuristics engine (lean_crash_analyzer.py)                        *)
(* Money is counted in units of cost_per_embedding (0.0001 dollar), scores *)
(* in tenths.  A text is a sequence of tokens; a token is a literal word,  *)
(* a hex address ("0x" and hex digits), a line number (":" and digits) or  *)
(* a decimal number.                                                       *)
(***************************************************************************)
Word(text, len) == [kind |-> "word", val |-> text, len |-> len]

\* "0x" followed by twelve lower-case hex digits
Hex(digits) == [kind |-> "hex", val |-> digits, len |-> 14]

\* "0x", a decimal digit, then hex digits written in upper case: rest is the
\* part from the first upper-case letter on (here without decimal digits)
UpperHex(rest) == [kind |-> "HEX", val |-> rest, len |-> 6]

\* ":" followed by three decimal digits
LineNo(digits) == [kind |-> "line", val |-> digits, len |-> 4]

\* one decimal digit
Num(digit) == [kind |-> "num", val |-> digit, len |-> 1]

AsanHeap == Word("AddressSanitizer: heap-buffer-overflow on address ", 50)

AtFile == Word(" at /src/fuzzer_target.c", 24)

UafText == Word("heap-buffer-overflow after use-after-free: memory corruption", 60)

TestText == Word("Test error message ", 19)

LongText == Word("assertion failed in a very long diagnostic text that fills the first hundred characters of it", 93)

\* the keywords of the heuristics that occur in the lower-cased text
Keywords(text) ==
  CASE text = "heap-buffer-overflow" -> {"heap-buffer-overflow", "buffer"}
    [] text = "use-after-free" -> {"use-after-free"}
    [] text = AsanHeap.val -> {"heap-buffer-overflow", "buffer"}
    [] text = UafText.val ->
         {"heap-buffer-overflow", "buffer", "use-after-free", "memory corruption",
          "memory"}
    [] text = "double-free" -> {"double-free"}
    [] text = "buffer overflow" -> {"buffer overflow", "buffer"}
    [] text = "heap buffer overflow" -> {"buffer overflow", "buffer"}
    [] text = "heap_buffer_overflow" -> {"buffer"}
    [] text = "memory corruption" -> {"memory corruption", "memory"}
    [] text = "segmentation fault" -> {"segmentation fault", "segmentation"}
    [] text = "SEGV: Segmentation Fault" -> {"segmentation fault", "segmentation"}
    [] OTHER -> {}

RECURSIVE MessageKeywords(_)
\* the keywords that occur in a lower-cased message
MessageKeywords(msg) ==
  IF msg = <<>> THEN {}
  ELSE (IF Head(msg).kind = "word" THEN Keywords(Head(msg).val) ELSE {})
       \cup MessageKeywords(Tail(msg))

\* the error messages of the crash reports
Messages ==
  { <<>>,
    <<AsanHeap, Hex("60200000eff4"), AtFile, LineNo("127")>>,
    <<AsanHeap, Hex("60200000abc8"), AtFile, LineNo("131")>>,
    <<AsanHeap, UpperHex("FFE"), AtFile, LineNo("127")>>,
    <<AsanHeap, UpperHex("BEE"), AtFile, LineNo("131")>>,
    <<LongText, Hex("60200000eff4"), LineNo("127")>>,
    <<LongText, Hex("60200000abc8"), LineNo("131")>>,
    <<UafText>>,
    <<TestText, Num("1")>> }

\* the stack traces of the crash reports, with the value of
\* _extract_top_function: None for an empty trace or one no pattern matches
top_function(stack_trace) ==
  CASE stack_trace = "#0 0x4f5e35 in parse_input /src/fuzzer_target.c:127:9" -> "parse_input"
    [] OTHER -> "None"

\* the keys a well-formed crash report holds
AllKeys == {"crash_type", "stack_trace", "error_message", "input_info"}

\* crash reports: keys are the keys the report holds, size is input_info['size']
CrashReports ==
  [ keys          : {AllKeys},
    crash_type    : {"heap-buffer-overflow"},
    stack_trace   : {"#0 0x4f5e35 in parse_input /src/fuzzer_target.c:127:9"},
    error_message : Messages \ {<<UafText>>, <<TestText, Num("1")>>},
    size          : {1500} ]
  \cup
  { [keys |-> AllKeys, crash_type |-> "use-after-free", stack_trace |-> "",
     error_message |-> <<UafText>>, size |-> 50],
    [keys |-> AllKeys, crash_type |-> "heap-buffer-overflow", stack_trace |-> "",
     error_message |-> <<>>, size |-> 50],
    [keys |-> AllKeys, crash_type |-> "test_crash_1",
     stack_trace |-> "#0 test_function_1 /src/test.c:10",
     error_message |-> <<TestText, Num("1")>>, size |-> 150],
    [keys |-> {}, crash_type |-> "", stack_trace |-> "",
     error_message |-> <<>>, size |-> 0] }

\* crash_report.get(key, default)
Get(report, key, default) == IF key \in report.keys THEN report[key] ELSE default

\* crash_report.get('input_info', {}).get('size', 0)
InputSize(report) == IF "input_info" \in report.keys THEN report.size ELSE 0

\* the six high_risk_patterns of _calculate_exploit_risk
high_risk_patterns ==
  {"heap-buffer-overflow", "use-after-free", "double-free", "buffer overflow",
   "memory corruption", "segmentation fault"}

Min(a, b) == IF a < b THEN a ELSE b

\* _calculate_exploit_risk, in tenths
calculate_exploit_risk_unclamped(report) ==
  LET crash_type    == Keywords(Get(report, "crash_type", ""))
      error_message == MessageKeywords(Get(report, "error_message", <<>>))
      hits == Cardinality({pt \in high_risk_patterns :
                             pt \in crash_type \/ pt \in error_message})
      input_size == InputSize(report)
  IN  3 * hits + (IF input_size > 1000 THEN 2
                  ELSE IF input_size > 100 THEN 1 ELSE 0)

calculate_exploit_risk(report) ==
  LET crash_type    == Keywords(Get(report, "crash_type", ""))
      error_message == MessageKeywords(Get(report, "error_message", <<>>))
      hits == Cardinality({pt \in high_risk_patterns :
                             pt \in crash_type \/ pt \in error_message})
      input_size == InputSize(report)
  IN  Min(3 * hits + (IF input_size > 1000 THEN 2
                      ELSE IF input_size > 100 THEN 1 ELSE 0), 10)

\* _categorize_vulnerability (a keyword lying across the joint of
\* crash_type + error_message is not modelled)
categorize_vulnerability(report) ==
  LET both == Keywords(Get(report, "crash_type", ""))
              \cup MessageKeywords(Get(report, "error_message", <<>>))
  IN  IF "buffer" \in both THEN "buffer_overflow"
      ELSE IF "use-after-free" \in both THEN "use_after_free"
      ELSE IF "null" \in both THEN "null_pointer_dereference"
      ELSE IF "segmentation" \in both THEN "memory_corruption"
      ELSE "other"

\* 'critical' in analysis.get('vulnerability_category', '').lower()
category_is_critical(category) == FALSE

\* _calculate_priority_score, in tenths
calculate_priority_score(report) ==
  LET memory_bonus == IF "memory" \in Keywords(Get(report, "crash_type", ""))
                        THEN 2 ELSE 0
      size_bonus == IF InputSize(report) > 1000 THEN 1 ELSE 0
  IN  Min(calculate_exploit_risk(report) + memory_bonus + size_bonus, 10)

\* self.vulnerability_patterns: pattern name -> keywords
vulnerability_patterns ==
  [ heap_buffer_overflow |-> {"heap-buffer-overflow", "heap overflow"},
    use_after_free |-> {"use-after-free", "freed memory"},
    buffer_overflow |-> {"buffer overflow", "stack-buffer-overflow"},
    null_pointer_dereference |-> {"null pointer", "segmentation fault"} ]

\* _match_vulnerability_patterns: the names of the patterns that match
match_vulnerability_patterns(report) ==
  LET both == Keywords(Get(report, "crash_type", ""))
              \cup MessageKeywords(Get(report, "error_message", <<>>))
  IN  {name \in DOMAIN vulnerability_patterns :
         vulnerability_patterns[name] \cap both # {}}

\* re.sub of the three patterns of _normalize_error_message on one token:
\* '0x[0-9a-f]+' stops at the first upper-case digit
normalize_token(t) ==
  CASE t.kind = "hex"  -> Word("ADDR", 4)
    [] t.kind = "HEX"  -> Word("ADDR" \o t.val, t.len - 2)
    [] t.kind = "line" -> Word(":LINE", 5)
    [] t.kind = "num"  -> Word("NUM", 3)
    [] OTHER -> Word(t.val, t.len)

RECURSIVE Truncate(_, _)
\* text[:n]: a token of fewer characters than its val is the prefix of it
Truncate(text, n) ==
  IF text = <<>> \/ n <= 0 THEN <<>>
  ELSE IF Head(text).len >= n THEN <<[Head(text) EXCEPT !.len = n]>>
  ELSE <<Head(text)>> \o Truncate(Tail(text), n - Head(text).len)

\* the limit of the normalized message
NormLimit == 100

\* _normalize_error_message
normalize_error_message(error_message) ==
  Truncate([i \in 1..Len(error_message) |-> normalize_token(error_message[i])],
           NormLimit)

\* one string as a text
Text(str) == IF str = "" THEN <<>> ELSE <<Word(str, Len(str))>>

\* '|'.join(filter(None, parts)): the parts that are not empty or None; the
\* digest of the joined text is taken to tell two joined texts apart
JoinParts(parts) == SelectSeq(parts, LAMBDA part : part # <<>>)

\* _generate_dedup_key
generate_dedup_key(report) ==
  LET top == top_function(Get(report, "stack_trace", ""))
  IN  JoinParts(<<Text(Get(report, "crash_type", "unknown")),
                  IF top = "None" THEN <<>> ELSE Text(top),
                  normalize_error_message(Get(report, "error_message", <<>>))>>)

\* a cluster analysis that counts the observation it adds
fast_cluster_analysis_counting_itself(clusters, dedup_key) ==
  IF dedup_key \in DOMAIN clusters
    THEN [is_duplicate |-> TRUE, is_novel |-> FALSE,
          cluster_size |-> clusters[dedup_key] + 1, deduplication_key |-> dedup_key]
    ELSE [is_duplicate |-> FALSE, is_novel |-> TRUE,
          cluster_size |-> 1, deduplication_key |-> dedup_key]

\* _fast_cluster_analysis: clusters maps a key to the number of times seen
fast_cluster_analysis(clusters, dedup_key) ==
  IF dedup_key \in DOMAIN clusters
    THEN [is_duplicate |-> TRUE, is_novel |-> FALSE,
          cluster_size |-> clusters[dedup_key], deduplication_key |-> dedup_key]
    ELSE [is_duplicate |-> FALSE, is_novel |-> TRUE,
          cluster_size |-> 1, deduplication_key |-> dedup_key]

\* self.crash_clusters[dedup_key].append(time.time())
add_to_cluster(clusters, dedup_key) ==
  [k \in DOMAIN clusters \cup {dedup_key} |->
     IF k = dedup_key
       THEN (IF k \in DOMAIN clusters THEN clusters[k] + 1 ELSE 1)
       ELSE clusters[k]]

\* the limits of _create_optimized_crash_text
ErrorLimit == 200
TextLimit == 500

\* _create_optimized_crash_text: the parts joined by newlines; the digest of
\* the text is the cache key and is taken to tell two texts apart
create_optimized_crash_text(report) ==
  LET top == top_function(Get(report, "stack_trace", ""))
      size == InputSize(report)
      parts == JoinParts(<<
        <<Word("CRASH: ", 7)>> \o Text(Get(report, "crash_type", "unknown")),
        IF top = "None" THEN <<>> ELSE <<Word("FUNC: ", 6)>> \o Text(top),
        IF Get(report, "error_message", <<>>) = <<>> THEN <<>>
        ELSE <<Word("ERROR: ", 7)>>
             \o Truncate(Get(report, "error_message", <<>>), ErrorLimit),
        IF size > 0 THEN <<Word("INPUT_SIZE: ", 12)>> \o Text(ToString(size))
        ELSE <<>> >>)
      joined == [i \in 1..Len(parts) |->
                   IF i < Len(parts) THEN parts[i] \o <<Word("\n", 1)>>
                   ELSE parts[i]]
      RECURSIVE Flat(_)
      Flat(seq) == IF seq = <<>> THEN <<>> ELSE Head(seq) \o Flat(Tail(seq))
  IN  Truncate(Flat(joined), TextLimit)

\* the keys _fast_local_enhancement puts in the analysis
LocalKeys ==
  {"crash_signature", "exploit_risk_score", "vulnerability_category",
   "deduplication_key", "priority_score", "cluster_analysis",
   "vulnerability_matches"}

\* _fast_local_enhancement without a base analyzer; a key of the analysis
\* not in its keys holds the default analysis.get reads for it
fast_local_enhancement(clusters, report) ==
  [ keys |-> LocalKeys,
    exploit_risk_score |-> calculate_exploit_risk(report),
    vulnerability_category |-> categorize_vulnerability(report),
    deduplication_key |-> generate_dedup_key(report),
    priority_score |-> calculate_priority_score(report),
    cluster_analysis |-> fast_cluster_analysis(clusters, generate_dedup_key(report)),
    vulnerability_matches |-> match_vulnerability_patterns(report),
    embedding_analysis_used |-> FALSE,
    cache_hit |-> FALSE,
    estimated_cost |-> 0,
    error |-> "" ]

should_use_embeddings_any_budget(analysis, cost, budget, enabled) ==
  /\ enabled
  /\ \/ analysis.priority_score > 8
     \/ analysis.exploit_risk_score > 7
     \/ analysis.cluster_analysis.is_novel
     \/ analysis.vulnerability_matches = {}
     \/ category_is_critical(analysis.vulnerability_category)

should_use_embeddings_unless_disabled(analysis, cost, budget, enabled) ==
  /\ ~(cost >= budget)
  /\ \/ analysis.priority_score > 8
     \/ analysis.exploit_risk_score > 7
     \/ analysis.cluster_analysis.is_novel
     \/ analysis.vulnerability_matches = {}
     \/ category_is_critical(analysis.vulnerability_category)

\* _should_use_embeddings
should_use_embeddings(analysis, cost, budget, enabled) ==
  /\ ~(cost >= budget)
  /\ enabled
  /\ \/ analysis.priority_score > 8
     \/ analysis.exploit_risk_score > 7
     \/ analysis.cluster_analysis.is_novel
     \/ analysis.vulnerability_matches = {}
     \/ category_is_critical(analysis.vulnerability_category)

\* the cache file is written when the cache holds a multiple of this
SaveEvery == 10

\* what can happen in _generate_new_embedding for a text the cache lacks:
\* no credential, the service (or its import) raises, the cache file cannot
\* be written, the cost file cannot be written, or all of it works
Outcomes(cache, cache_key) ==
  {"no_api_key", "service_error", "save_error", "ok"}
  \cup (IF Cardinality(cache \cup {cache_key}) % SaveEvery = 0
          THEN {"cache_error"} ELSE {})

\* _generate_new_embedding: the update of the analysis and the engine's
\* cache, cache file, running cost and cost file after it
\* a _cache_embedding that writes the cache file at every insertion
cache_embedding_every_insert(cache, disk, cache_key) ==
  [cache |-> cache \cup {cache_key}, disk_cache |-> cache \cup {cache_key}]

\* _cache_embedding when the cache file can be written: the cache in memory
\* and the cache file after it
cache_embedding(cache, disk, cache_key) ==
  [cache |-> cache \cup {cache_key},
   disk_cache |-> IF Cardinality(cache \cup {cache_key}) % SaveEvery = 0
                    THEN cache \cup {cache_key} ELSE disk]

generate_new_embedding(cache_key, outcome) ==
  LET cached == cache_embedding(embedding_cache, disk_cache, cache_key).cache
      dumped == cache_embedding(embedding_cache, disk_cache, cache_key).disk_cache
      same == [cache |-> embedding_cache, disk_cache |-> disk_cache,
               cost |-> current_daily_cost, disk_cost |-> disk_daily_cost]
      failed == [keys |-> {"embedding_analysis_used", "error", "estimated_cost"},
                 embedding_analysis_used |-> FALSE, cache_hit |-> FALSE,
                 estimated_cost |-> 0, error |-> outcome]
  IN  CASE outcome = "no_api_key" ->
             [update |-> [failed EXCEPT !.keys = {"embedding_analysis_used", "error"}],
              service |-> FALSE] @@ same
        [] outcome = "service_error" ->
             [update |-> failed, service |-> TRUE] @@ same
        [] outcome = "cache_error" ->
             [update |-> failed, service |-> TRUE]
             @@ [same EXCEPT !.cache = cached]
        [] outcome = "save_error" ->
             [update |-> failed, service |-> TRUE, cache |-> cached,
              disk_cache |-> dumped, cost |-> current_daily_cost + 1,
              disk_cost |-> disk_daily_cost]
        [] outcome = "ok" ->
             [update |-> [keys |-> {"embedding_analysis_used", "cache_hit",
                                    "estimated_cost", "similar_crashes",
                                    "embedding_confidence"},
                          embedding_analysis_used |-> TRUE, cache_hit |-> FALSE,
                          estimated_cost |-> 1, error |-> ""],
              service |-> TRUE, cache |-> cached, disk_cache |-> dumped,
              cost |-> current_daily_cost + 1,
              disk_cost |-> current_daily_cost + 1]

\* _selective_embedding_analysis
selective_embedding_analysis(report, outcome) ==
  LET cache_key == create_optimized_crash_text(report)
  IN  IF cache_key \in embedding_cache
        THEN [update |-> [keys |-> {"embedding_analysis_used", "cache_hit",
                                    "estimated_cost", "similar_crashes"},
                          embedding_analysis_used |-> TRUE, cache_hit |-> TRUE,
                          estimated_cost |-> 0, error |-> ""],
              service |-> FALSE, cache |-> embedding_cache,
              disk_cache |-> disk_cache, cost |-> current_daily_cost,
              disk_cost |-> disk_daily_cost]
        ELSE generate_new_embedding(cache_key, outcome)

\* the number of analyses of one engine instance
MaxAnalyses == 2

\* the largest daily budget and the largest cost loaded from the cost file
MaxBudget == 2

\* defaultdict(list): no cluster yet
NoClusters == [k \in {} |-> 0]

\* an embedding cache file of nine vectors of earlier crashes
NineCached == {<<Word("CRASH: earlier", 14), Num(ToString(i))>> : i \in 1..9}

\* the engine after __init__ has assigned its fields: the running cost and
\* the cache are those of the files
LInit ==
  /\ l_pc = "ready"
  /\ enable_embeddings \in BOOLEAN
  /\ daily_budget \in 0..MaxBudget
  /\ disk_daily_cost \in 0..MaxBudget
  /\ current_daily_cost = disk_daily_cost
  /\ disk_cache \in {{}, NineCached}
  /\ embedding_cache = disk_cache
  /\ crash_clusters = NoClusters
  /\ l_results = <<>>
  /\ l_trace = <<>>

\* no engine
LIdle ==
  /\ l_pc = "idle"
  /\ enable_embeddings = FALSE
  /\ daily_budget = 0
  /\ disk_daily_cost = 0
  /\ current_daily_cost = 0
  /\ disk_cache = {}
  /\ embedding_cache = {}
  /\ crash_clusters = NoClusters
  /\ l_results = <<>>
  /\ l_trace = <<>>

\* the end of analyze_crash_intelligently: the analysis updated by the paid
\* step's result e, with the statistics of the call, and the engine after it
finish_analysis(report, outcome, local, paid, e) ==
  [ analysis |->
      [ keys |-> local.keys \cup e.update.keys
                 \cup {"recommended_actions", "test_cases", "intelligence_stats"},
        exploit_risk_score |-> local.exploit_risk_score,
        vulnerability_category |-> local.vulnerability_category,
        deduplication_key |-> local.deduplication_key,
        priority_score |-> local.priority_score,
        cluster_analysis |-> local.cluster_analysis,
        vulnerability_matches |-> local.vulnerability_matches,
        embedding_analysis_used |-> e.update.embedding_analysis_used,
        cache_hit |-> e.update.cache_hit,
        estimated_cost |-> e.update.estimated_cost,
        error |-> e.update.error,
        intelligence_stats |->
          [embedding_used |-> e.update.embedding_analysis_used,
           estimated_cost |-> e.update.estimated_cost,
           cache_hit |-> e.update.cache_hit] ],
    clusters |-> add_to_cluster(crash_clusters, local.deduplication_key),
    engine |-> e,
    trace |-> [report |-> report, outcome |-> outcome,
               cost_before |-> current_daily_cost, cost_after |-> e.cost,
               cache_before |-> embedding_cache, cache_after |-> e.cache,
               cache_lookup |-> paid, service |-> e.service] ]

\* phase 2 of analyze_crash_intelligently
paid_phase(report, outcome, local, paid) ==
  finish_analysis(report, outcome, local, paid,
    IF paid THEN selective_embedding_analysis(report, outcome)
    ELSE [update |-> [keys |-> {}, embedding_analysis_used |-> FALSE,
                      cache_hit |-> FALSE, estimated_cost |-> 0, error |-> ""],
          service |-> FALSE, cache |-> embedding_cache,
          disk_cache |-> disk_cache, cost |-> current_daily_cost,
          disk_cost |-> disk_daily_cost])

\* phase 1 of analyze_crash_intelligently
local_phase(report, outcome, local) ==
  paid_phase(report, outcome, local,
             should_use_embeddings(local, current_daily_cost, daily_budget,
                                   enable_embeddings))

\* analyze_crash_intelligently(report); outcome is what the paid step meets
\* if it runs
analyze_crash_intelligently(report, outcome) ==
  local_phase(report, outcome, fast_local_enhancement(crash_clusters, report))

\* one call of analyze_crash_intelligently on an engine that has made fewer
\* than most calls
Analyze(report, outcome, most) ==
  /\ l_pc = "ready"
  /\ Len(l_results) < most
  /\ \E r \in {analyze_crash_intelligently(report, outcome)} :
       /\ crash_clusters' = r.clusters
       /\ embedding_cache' = r.engine.cache
       /\ disk_cache' = r.engine.disk_cache
       /\ current_daily_cost' = r.engine.cost
       /\ disk_daily_cost' = r.engine.disk_cost
       /\ l_results' = Append(l_results, r.analysis)
       /\ l_trace' = Append(l_trace, r.trace)
  /\ UNCHANGED <<enable_embeddings, daily_budget, l_pc>>
  /\ UNCHANGED NotEngine

\* one call of analyze_crash_intelligently on the engine
LAnalyze(report, outcome) == Analyze(report, outcome, MaxAnalyses)

\* what an analysis of the report can meet in the engine's state
Environment(report) ==
  LET local == fast_local_enhancement(crash_clusters, report)
      cache_key == create_optimized_crash_text(report)
  IN  IF ~should_use_embeddings(local, current_daily_cost, daily_budget,
                                enable_embeddings) THEN {"local"}
      ELSE IF cache_key \in embedding_cache THEN {"cached"}
      ELSE Outcomes(embedding_cache, cache_key)

LNext ==
  \E report \in CrashReports :
    \E outcome \in Environment(report) : LAnalyze(report, outcome)

(***************************************************************************)
(* Properties of the crash heuristics engine                               *)
(***************************************************************************)
\* the high-value criteria read from a returned analysis
high_value(analysis) ==
  \/ analysis.priority_score > 8
  \/ analysis.exploit_risk_score > 7
  \/ analysis.cluster_analysis.is_novel
  \/ analysis.vulnerability_matches = {}
  \/ category_is_critical(analysis.vulnerability_category)

IsAddress(t) == t.kind \in {"hex", "HEX"}

\* two messages that differ only in an embedded hex address and a line number
DifferInAddressAndLine(m1, m2) ==
  /\ Len(m1) = Len(m2)
  /\ \A i \in 1..Len(m1) :
       \/ m1[i] = m2[i]
       \/ IsAddress(m1[i]) /\ IsAddress(m2[i])
       \/ m1[i].kind = "line" /\ m2[i].kind = "line"
  /\ \E i \in 1..Len(m1) : IsAddress(m1[i]) /\ m1[i] # m2[i]
  /\ \E i \in 1..Len(m1) : m1[i].kind = "line" /\ m1[i] # m2[i]

\* the two analyses of an engine were of reports with the same crash type and
\* top function whose messages differ only in an address and a line number
TwoAlikeReports ==
  /\ Len(l_trace) = 2
  /\ l_trace[1].report.keys = AllKeys
  /\ l_trace[2].report.keys = AllKeys
  /\ l_trace[1].report.crash_type = l_trace[2].report.crash_type
  /\ top_function(l_trace[1].report.stack_trace)
       = top_function(l_trace[2].report.stack_trace)
  /\ DifferInAddressAndLine(l_trace[1].report.error_message,
                            l_trace[2].report.error_message)

MaxObservations == 4

\* the crashes it meets: two reports that differ in an address and a line
\* number, a report of another kind and a report without any field
RepeatedReports ==
  { r \in CrashReports :
      \/ r.error_message \in
           { <<AsanHeap, Hex("60200000eff4"), AtFile, LineNo("127")>>,
             <<AsanHeap, Hex("60200000abc8"), AtFile, LineNo("131")>>,
             <<UafText>> }
      \/ r.keys = {} }

\* one more call of analyze_crash_intelligently on that engine
LObserve ==
  \E report \in RepeatedReports :
    \E outcome \in Environment(report) : Analyze(report, outcome, MaxObservations)

\* the number of the first i analyses that had the deduplication key
Observed(key, i) ==
  Cardinality({j \in 1..i : l_results[j].deduplication_key = key})

CostFollowsVectors(failures) ==
  /\ \A i \in 1..Len(l_trace) :
       /\ l_trace[i].outcome = "ok" =>
            l_trace[i].cost_after = l_trace[i].cost_before + 1
       /\ l_trace[i].outcome \in {"local", "cached"} \cup failures =>
            l_trace[i].cost_after = l_trace[i].cost_before
       /\ l_trace[i].outcome \notin failures =>
            l_trace[i].cost_after >= l_trace[i].cost_before
       /\ l_trace[i].outcome = "cached" => ~l_trace[i].service
       /\ \A j \in 1..(i - 1) :
            /\ l_trace[j].outcome = "ok"
            /\ create_optimized_crash_text(l_trace[j].report)
                 = create_optimized_crash_text(l_trace[i].report)
            => ~l_trace[i].service
  /\ Len(l_trace) > 0 =>
       LET last == l_trace[Len(l_trace)]
       IN  /\ current_daily_cost = last.cost_after
           /\ last.cost_after > last.cost_before
                /\ last.outcome \notin {"save_error"} \ failures
                => disk_daily_cost = current_daily_cost

C30_ExceptCostFileFailure ==
  CostFollowsVectors({"no_api_key", "service_error", "cache_error"})

\* the paid step of both analyses got a vector, and the second one could not
\* write the cost file
C30_Witness ==
  /\ Len(l_trace) = 2
  /\ l_trace[1].outcome = "ok"
  /\ l_trace[2].outcome = "save_error"
  /\ current_daily_cost = disk_daily_cost + 1

\* the least and the greatest of a set of numbers
Least(S) == CHOOSE x \in S : \A y \in S : x <= y

Greatest(S) == CHOOSE x \in S : \A y \in S : x >= y

\* the analyses made so far that put a vector into the cache in memory
Insertions ==
  {i \in 1..Len(l_trace) : l_trace[i].cache_after # l_trace[i].cache_before}

\* the embedding cache the engine loaded when it was constructed
LoadedCache ==
  IF Len(l_trace) = 0 THEN embedding_cache ELSE l_trace[1].cache_before

\* the cache file holds the cache in memory as it was after the last of the
\* insertions, or the loaded cache if there is none
DiskIsCacheAtLast(insertions) ==
  disk_cache = IF insertions = {} THEN LoadedCache
               ELSE l_trace[Greatest(insertions)].cache_after

\* the insertions that made the size of the cache a multiple of 10
TenthInsertions ==
  {i \in Insertions : Cardinality(l_trace[i].cache_after) % SaveEvery = 0}

MaxBlocks == 4

\* the string copyright_header: the license lines and the empty line
copyright_header == <<"license", "blank">>

\* content.startswith(prefix)
StartsWith(content, prefix) ==
  /\ Len(content) >= Len(prefix)
  /\ SubSeq(content, 1, Len(prefix)) = prefix

\* the texts over the blocks B of at most MaxBlocks blocks
Texts(B) == UNION {[1..n -> B] : n \in 0..MaxBlocks}

\* the files header remediation may be applied to
HeaderFiles ==
  [text : Texts({"license", "blank", "notice", "shebang", "code"}),
   mode : {"rw", "r", "none"}]

add_copyright_header_always(file) ==
  IF file.mode = "rw"
    THEN [file |-> [file EXCEPT !.text = copyright_header \o file.text],
          ok |-> TRUE, wrote |-> TRUE]
    ELSE [file |-> file, ok |-> FALSE, wrote |-> FALSE]

\* _add_copyright_header(file_path): the file after it, the value returned
\* and whether the file was written
add_copyright_header(file) ==
  IF file.mode \in {"none", "absent"}
    THEN [file |-> file, ok |-> FALSE, wrote |-> FALSE]
  ELSE IF StartsWith(file.text, copyright_header)
    THEN [file |-> file, ok |-> TRUE, wrote |-> FALSE]
  ELSE IF file.mode = "r" THEN [file |-> file, ok |-> FALSE, wrote |-> FALSE]
  ELSE [file |-> [file EXCEPT !.text = copyright_header \o file.text],
        ok |-> TRUE, wrote |-> TRUE]

\* the number of times header remediation is applied to the file
MaxApplications == 3

HInit ==
  /\ h_pc = "ready"
  /\ h_orig \in HeaderFiles
  /\ h_file = h_orig
  /\ h_applied = <<>>
  /\ h_writes = 0

\* no file is remediated
HIdle ==
  /\ h_pc = "idle"
  /\ h_orig = [text |-> <<>>, mode |-> "none"]
  /\ h_file = h_orig
  /\ h_applied = <<>>
  /\ h_writes = 0

\* one call of _add_copyright_header on the file
HApply ==
  /\ h_pc = "ready"
  /\ Len(h_applied) < MaxApplications
  /\ \E r \in {add_copyright_header(h_file)} :
       /\ h_file' = r.file
       /\ h_applied' = Append(h_applied, r.file)
       /\ h_writes' = h_writes + (IF r.wrote THEN 1 ELSE 0)
  /\ UNCHANGED <<h_pc, h_orig>>
  /\ UNCHANGED NotHeader

RECURSIVE LeadingHeaders(_)
\* the number of header blocks the text starts with, one after the other
LeadingHeaders(text) ==
  IF StartsWith(text, copyright_header)
    THEN 1 + LeadingHeaders(SubSeq(text, Len(copyright_header) + 1, Len(text)))
    ELSE 0

\* C11: every application of header remediation after the first leaves the
\* file as the first left it; the header block is written at most once, in
\* front of a text that did not start with it, so that a remediated file
\* starts with the header block once; and a file that started with the exact
\* header block is never rewritten
C11_HeaderRemediationIdempotent ==
  /\ \A k \in 1..Len(h_applied) : h_applied[k] = h_applied[1]
  /\ h_writes <= 1
  /\ h_writes = 1 =>
       /\ h_file.text = copyright_header \o h_orig.text
       /\ LeadingHeaders(h_file.text) = 1
  /\ (h_applied # <<>> /\ h_orig.mode = "rw") =>
       StartsWith(h_file.text, copyright_header)
  /\ StartsWith(h_orig.text, copyright_header) =>
       h_writes = 0 /\ h_file = h_orig

\* header remediation was applied three times to a writable file that held a
\* copyright notice but did not start with the header block
C11_Witness ==
  /\ Len(h_applied) = 3
  /\ h_writes = 1
  /\ h_file.text = copyright_header \o <<"shebang", "notice">>

(***************************************************************************)
(* Compliance phase of the Comprehensive deployer, at file level           *)
(* (check_project_compliance, fix_compliance_issues and Step 3 of          *)
(* run_comprehensive_deployment).  The text of a project.yaml is a         *)
(* sequence of words; a word is a forbidden phrase in some spelling, its   *)
(* substitute, "{" (a flow mapping left open, which yaml.safe_load         *)
(* rejects) or another word.  A path is <<directory, file name>>, "." being *)
(* the working directory of the process.                                   *)
(***************************************************************************)
\* the compliance section of the configuration _create_comprehensive_config
\* writes
compliance ==
  [ enabled                    |-> TRUE,
    check_copyright_headers    |-> TRUE,
    check_ai_references        |-> TRUE,
    auto_fix_copyright_headers |-> TRUE,
    auto_fix_ai_references     |-> TRUE,
    exclude_files              |-> {"master-compliance-deploy.py",
                                    "enhanced-master-deploy.py",
                                    "comprehensive-compliance-deploy.py",
                                    "security-audit-integration.py"} ]

\* ai_patterns of check_project_compliance
ai_patterns == <<"ai-powered", "ai-assisted", "sentient core", "tower of babel">>

\* replacements of _fix_ai_references, in the order of the dict, with
\* str.title() and str.upper() of each phrase and each substitute
replacements ==
  << [old |-> "ai-powered", old_title |-> "Ai-Powered", old_upper |-> "AI-POWERED",
      new |-> "pattern-powered", new_title |-> "Pattern-Powered",
      new_upper |-> "PATTERN-POWERED"],
     [old |-> "ai-assisted", old_title |-> "Ai-Assisted", old_upper |-> "AI-ASSISTED",
      new |-> "pattern-assisted", new_title |-> "Pattern-Assisted",
      new_upper |-> "PATTERN-ASSISTED"],
     [old |-> "sentient core", old_title |-> "Sentient Core",
      old_upper |-> "SENTIENT CORE",
      new |-> "pattern-based core", new_title |-> "Pattern-Based Core",
      new_upper |-> "PATTERN-BASED CORE"],
     [old |-> "tower of babel", old_title |-> "Tower Of Babel",
      old_upper |-> "TOWER OF BABEL",
      new |-> "universal plugin generator",
      new_title |-> "Universal Plugin Generator",
      new_upper |-> "UNIVERSAL PLUGIN GENERATOR"] >>

\* spellings of a phrase that are neither lower-case, title-case nor upper-case
MixedCase == [w \in {"AI-powered", "Sentient core"} |->
                IF w = "AI-powered" THEN "ai-powered" ELSE "sentient core"]

\* str.lower() of a word
lower(w) ==
  IF w \in DOMAIN MixedCase THEN MixedCase[w]
  ELSE IF \E k \in DOMAIN replacements :
            w \in {replacements[k].old_title, replacements[k].old_upper}
    THEN replacements[CHOOSE k \in DOMAIN replacements :
           w \in {replacements[k].old_title, replacements[k].old_upper}].old
  ELSE IF \E k \in DOMAIN replacements :
            w \in {replacements[k].new_title, replacements[k].new_upper}
    THEN replacements[CHOOSE k \in DOMAIN replacements :
           w \in {replacements[k].new_title, replacements[k].new_upper}].new
  ELSE w

\* "phrase in content.lower()"
InLower(phrase, content) == \E i \in DOMAIN content : lower(content[i]) = phrase

\* content.replace(old, new)
replace(content, old, new) ==
  [i \in DOMAIN content |-> IF content[i] = old THEN new ELSE content[i]]

RECURSIVE replace_all(_, _, _)
\* the loop of _fix_ai_references over replacements from entry k on: the
\* content after it and the flag modified
replace_all(content, modified, k) ==
  IF k > Len(replacements) THEN [content |-> content, modified |-> modified]
  ELSE IF InLower(replacements[k].old, content)
    THEN replace_all(
           replace(replace(replace(content, replacements[k].old,
                                   replacements[k].new),
                           replacements[k].old_title, replacements[k].new_title),
                   replacements[k].old_upper, replacements[k].new_upper),
           TRUE, k + 1)
  ELSE replace_all(content, modified, k + 1)

\* _fix_ai_references(file_path) without its replacements
fix_ai_references_nothing(file) ==
  [file |-> file, ok |-> file.mode \in {"rw", "r"}, wrote |-> FALSE]

\* _fix_ai_references(file_path): the file after it, the value returned and
\* whether the file was written
fix_ai_references(file) ==
  IF file.mode \in {"none", "absent"}
    THEN [file |-> file, ok |-> FALSE, wrote |-> FALSE]
  ELSE LET r == replace_all(file.text, FALSE, 1)
       IN  IF ~r.modified THEN [file |-> file, ok |-> TRUE, wrote |-> FALSE]
           ELSE IF file.mode = "r"
             THEN [file |-> file, ok |-> FALSE, wrote |-> FALSE]
           ELSE [file |-> [file EXCEPT !.text = r.content],
                 ok |-> TRUE, wrote |-> TRUE]

\* the project directories of the phase
KProjectNames == {"curl", "nginx"}

\* the file names a project directory may hold
FileNames == {"project.yaml", "fuzz.py", "Dockerfile", "build.sh"}

\* f"project.yaml: {pattern}"
AiReference(pattern) == "project.yaml: " \o pattern

\* the path open() resolves a relative file name to
InCwd(name) == <<".", name>>

\* the paths of the model
Paths ==
  (KProjectNames \X FileNames)
    \cup {InCwd(AiReference(ai_patterns[k])) : k \in DOMAIN ai_patterns}

\* no such file
Absent == [text |-> <<>>, mode |-> "absent"]

\* os.path.exists(path)
Exists(fs, path) == fs[path].mode # "absent"

\* the ComplianceResult of a check that raised inside its try block
ErrorResult ==
  [success |-> FALSE, issues |-> <<"Error during compliance check">>,
   copyright_headers_missing |-> <<>>, ai_references_found |-> <<>>,
   yaml_syntax_errors |-> <<>>, required_files_missing |-> <<>>, raised |-> TRUE]

\* no lists yet
EmptyResult ==
  [success |-> FALSE, issues |-> <<>>,
   copyright_headers_missing |-> <<>>, ai_references_found |-> <<>>,
   yaml_syntax_errors |-> <<>>, required_files_missing |-> <<>>, raised |-> FALSE]

RECURSIVE FoundPatterns(_, _)
\* the patterns of ai_patterns, from number k on, found in the lower-cased
\* content, in the order of ai_patterns
FoundPatterns(content, k) ==
  IF k > Len(ai_patterns) THEN <<>>
  ELSE (IF InLower(ai_patterns[k], content) THEN <<ai_patterns[k]>> ELSE <<>>)
       \o FoundPatterns(content, k + 1)

\* AiReference of each pattern of a list
AiReferences(patterns) == [i \in DOMAIN patterns |-> AiReference(patterns[i])]

\* check_project_compliance, its part on project.yaml: the lists so far
check_project_yaml(fs, p) ==
  LET f == fs[<<p, "project.yaml">>]
  IN  IF f.mode = "absent"
        THEN [EmptyResult EXCEPT !.required_files_missing = <<"project.yaml">>,
                                 !.issues = <<"Missing project.yaml">>]
      ELSE IF f.mode = "none" THEN ErrorResult
      ELSE LET syntax == IF "{" \in Range(f.text)
                           THEN <<"project.yaml: YAMLError">> ELSE <<>>
               found  == IF compliance.check_ai_references
                           THEN FoundPatterns(f.text, 1) ELSE <<>>
           IN  [EmptyResult EXCEPT
                  !.yaml_syntax_errors = syntax,
                  !.ai_references_found = AiReferences(found),
                  !.issues = [i \in DOMAIN syntax |-> "YAML syntax error"]
                             \o [i \in DOMAIN found |-> "AI reference found"]]

\* _should_check_file(file_path)
should_check_file(path) == path[2] \notin compliance.exclude_files

\* _has_copyright_header(file_path): "Copyright 2025 Google LLC" in content
has_copyright_header(file) ==
  /\ file.mode \in {"rw", "r"}
  /\ \E i \in DOMAIN file.text : file.text[i] \in {"license", "notice"}

\* the files os.walk finds under every project directory
source_files_everywhere(fs, p) ==
  LET q == CHOOSE q \in KProjectNames : q # p
  IN  (IF Exists(fs, <<p, "fuzz.py">>) THEN << <<p, "fuzz.py">> >> ELSE <<>>)
      \o (IF Exists(fs, <<q, "fuzz.py">>) THEN << <<q, "fuzz.py">> >> ELSE <<>>)

\* the files os.walk(project.path) finds that end in a source suffix
source_files(fs, p) ==
  IF Exists(fs, <<p, "fuzz.py">>) THEN << <<p, "fuzz.py">> >> ELSE <<>>

RECURSIVE missing_headers(_, _)
\* the files of a list that are checked and lack the copyright notice
missing_headers(fs, files) ==
  IF files = <<>> THEN <<>>
  ELSE (IF should_check_file(Head(files)) /\ ~has_copyright_header(fs[Head(files)])
          THEN <<Head(files)>> ELSE <<>>)
       \o missing_headers(fs, Tail(files))

\* check_project_compliance, from the walk over the source files to its
\* return, given the lists its part on project.yaml left
check_project_files(fs, p, sofar) ==
  IF sofar.raised THEN sofar
  ELSE LET missing  == IF compliance.check_copyright_headers
                         THEN missing_headers(fs, source_files(fs, p)) ELSE <<>>
           required == (IF Exists(fs, <<p, "Dockerfile">>) THEN <<>>
                                                          ELSE <<"Dockerfile">>)
                       \o (IF Exists(fs, <<p, "build.sh">>) THEN <<>>
                                                           ELSE <<"build.sh">>)
           issues   == sofar.issues
                       \o [i \in DOMAIN missing |-> "Missing copyright header"]
                       \o [i \in DOMAIN required |-> "Missing required file"]
       IN  [sofar EXCEPT !.copyright_headers_missing = missing,
                         !.required_files_missing = @ \o required,
                         !.issues = issues,
                         !.success = (issues = <<>>)]

\* check_project_compliance(project) on files nobody else touches
check_project_compliance(fs, p) ==
  check_project_files(fs, p, check_project_yaml(fs, p))

RECURSIVE fix_copyright_headers(_, _, _)
\* the first loop of fix_compliance_issues over the rest of
\* copyright_headers_missing, up to the next open(file_path, 'w'), which
\* truncates the file: writing is <<path, the file as it will be closed>>
fix_copyright_headers(fs, list, fixed) ==
  IF list = <<>>
    THEN [fs |-> fs, fixed |-> fixed, writing |-> <<>>, rest |-> <<>>]
  ELSE IF add_copyright_header(fs[Head(list)]).wrote
    THEN [fs |-> [fs EXCEPT ![Head(list)].text = <<>>], fixed |-> fixed,
          writing |-> <<Head(list), add_copyright_header(fs[Head(list)]).file>>,
          rest |-> Tail(list)]
  ELSE fix_copyright_headers(fs, Tail(list),
                             fixed /\ add_copyright_header(fs[Head(list)]).ok)

RECURSIVE fix_ai_references_all(_, _, _)
\* the second loop of fix_compliance_issues: every entry of
\* ai_references_found is opened as a file name
fix_ai_references_all(fs, list, fixed) ==
  IF list = <<>> THEN [fs |-> fs, fixed |-> fixed]
  ELSE fix_ai_references_all(
         [fs EXCEPT ![InCwd(Head(list))] = fix_ai_references(@).file],
         Tail(list),
         fixed /\ fix_ai_references(fs[InCwd(Head(list))]).ok)

\* the main thread between two futures
Waiting ==
  [pc |-> "wait", project |-> "", path |-> <<>>, file |-> Absent,
   rest |-> <<>>, fixed |-> TRUE]

\* the as_completed loop body once fix_compliance_issues returned fixed: the
\* re-check, made iff fixed, and the status
settle_status(fs, p, first, fixed) ==
  [fs |-> fs, main |-> Waiting, done |-> TRUE,
   rechecks |-> IF fixed THEN 1 ELSE 0,
   status |-> IF (IF fixed THEN check_project_compliance(fs, p) ELSE first).success
                THEN "COMPLIANCE_PASSED" ELSE "COMPLIANCE_FAILED"]

\* fix_compliance_issues after its first loop, and what follows it
fix_after_headers(p, first, h) ==
  IF h.writing # <<>>
    THEN [fs |-> h.fs, done |-> FALSE, rechecks |-> 0, status |-> "PENDING",
          main |-> [pc |-> "writing", project |-> p, path |-> h.writing[1],
                    file |-> h.writing[2], rest |-> h.rest, fixed |-> h.fixed]]
  ELSE settle_status(
         fix_ai_references_all(h.fs,
           IF compliance.auto_fix_ai_references
             THEN first.ai_references_found ELSE <<>>, h.fixed).fs,
         p, first,
         fix_ai_references_all(h.fs,
           IF compliance.auto_fix_ai_references
             THEN first.ai_references_found ELSE <<>>, h.fixed).fixed)

\* fix_compliance_issues from the rest of its first loop on
fix_compliance_issues(fs, p, first, list, fixed) ==
  fix_after_headers(p, first, fix_copyright_headers(fs, list, fixed))

\* the as_completed loop body for the future of project p, up to the first
\* open(file_path, 'w') of the fix
handle_future(fs, p, first) ==
  IF first.success
    THEN [fs |-> fs, main |-> Waiting, done |-> TRUE, rechecks |-> 0,
          status |-> "COMPLIANCE_PASSED"]
  ELSE fix_compliance_issues(fs, p, first,
         IF compliance.auto_fix_copyright_headers
           THEN first.copyright_headers_missing ELSE <<>>, TRUE)

\* f.write(new_content) and the close of the file the main thread has open,
\* and the loop body from there to the next open(file_path, 'w')
close_and_go_on(fs, main, first) ==
  fix_compliance_issues([fs EXCEPT ![main.path] = main.file], main.project,
                        first, main.rest, main.fixed)

RECURSIVE run_to_status(_, _)
\* the loop body carried through to the status
run_to_status(r, first) ==
  IF r.done THEN r
  ELSE run_to_status(close_and_go_on(r.fs, r.main, first), first)

\* the phase on project p alone: its check, and the loop body on the result
checked_alone(fs, p) ==
  run_to_status(handle_future(fs, p, check_project_compliance(fs, p)),
                check_project_compliance(fs, p))

\* the texts of a project.yaml
YamlTexts ==
  { <<"fuzzing">>, <<"ai-powered">>, <<"AI-powered", "fuzzing">>,
    <<"Ai-Powered", "SENTIENT CORE">>, <<"{">> }

\* the project.yaml files: discover_projects saw each one exist
YamlFiles ==
  [text : YamlTexts, mode : {"rw"}] \cup {[text |-> <<"fuzzing">>, mode |-> "none"]}

\* the source file of a project, if it has one
PhaseSources ==
  {f \in HeaderFiles :
     \/ f.mode = "rw" /\ f.text \in {<<"code">>, <<"license", "blank", "code">>,
                                     <<"shebang", "notice">>}
     \/ f.mode = "r" /\ f.text = <<"code">>}
    \cup {Absent}

\* the directory of a project
ProjectDirs ==
  [yaml : YamlFiles, source : PhaseSources,
   required : {{"Dockerfile", "build.sh"}, {"Dockerfile"}}]

\* a file of the working directory that carries the name of an entry of
\* ai_references_found
StrayFiles ==
  {Absent, [text |-> <<"ai-powered", "Ai-Powered", "AI-powered">>, mode |-> "rw"]}

\* the files, given the directory of each project and the stray file
MakeFs(names, dir, stray) ==
  [path \in Paths |->
     IF path = InCwd(AiReference("ai-powered")) THEN stray
     ELSE IF path[1] \notin names THEN Absent
     ELSE IF path[2] = "project.yaml" THEN dir[path[1]].yaml
     ELSE IF path[2] = "fuzz.py" THEN dir[path[1]].source
     ELSE IF path[2] \in dir[path[1]].required
       THEN [text |-> <<>>, mode |-> "rw"]
     ELSE Absent]

\* Step 3 after every check was submitted to the pool
KInit ==
  /\ k_pc = "pool"
  /\ k_projects \in {<<"curl">>, <<"curl", "nginx">>}
  /\ \E dir \in [Range(k_projects) -> ProjectDirs], stray \in StrayFiles :
       k_fs = MakeFs(Range(k_projects), dir, stray)
  /\ k_orig = k_fs
  /\ k_worker = [p \in Range(k_projects) |-> "yaml"]
  /\ k_future = [p \in Range(k_projects) |-> EmptyResult]
  /\ k_completed = <<>>
  /\ k_i = 0
  /\ k_main = Waiting
  /\ k_status = [p \in Range(k_projects) |-> "PENDING"]
  /\ k_rechecks = [p \in Range(k_projects) |-> 0]
  /\ k_overlap = FALSE
  /\ k_race = FALSE

\* the phase is not looked at
KIdle ==
  /\ k_pc = "idle"
  /\ k_projects = <<>>
  /\ k_fs = [path \in Paths |-> Absent]
  /\ k_orig = k_fs
  /\ k_worker = <<>>
  /\ k_future = <<>>
  /\ k_completed = <<>>
  /\ k_i = 0
  /\ k_main = Waiting
  /\ k_status = <<>>
  /\ k_rechecks = <<>>
  /\ k_overlap = FALSE
  /\ k_race = FALSE

\* the main thread has a file open for writing
Writing == k_main.pc = "writing"

\* a worker of project p reads paths while the fix of another project has
\* one of them open for writing
Racing(p, paths) == Writing /\ k_main.project # p /\ k_main.path \in paths

\* a worker thread runs check_project_compliance(p) up to the walk: it reads
\* project.yaml; a check that raised returns at once
KWorkerYaml(p) ==
  /\ k_pc = "pool"
  /\ k_worker[p] = "yaml"
  /\ \E r \in {check_project_yaml(k_fs, p)} :
       /\ k_future' = [k_future EXCEPT ![p] = r]
       /\ k_worker' = [k_worker EXCEPT ![p] = IF r.raised THEN "done" ELSE "walk"]
       /\ k_completed' = IF r.raised THEN Append(k_completed, p) ELSE k_completed
  /\ k_overlap' = (k_overlap \/ Writing)
  /\ k_race' = (k_race \/ Racing(p, {<<p, "project.yaml">>}))
  /\ UNCHANGED <<k_pc, k_projects, k_orig, k_fs, k_i, k_main, k_status,
                 k_rechecks>>
  /\ UNCHANGED NotPhase

\* the worker thread runs the rest of check_project_compliance(p): it reads
\* the source files, looks for the required files, and its future completes
KWorkerWalk(p) ==
  /\ k_pc = "pool"
  /\ k_worker[p] = "walk"
  /\ k_future' = [k_future EXCEPT ![p] = check_project_files(k_fs, p, @)]
  /\ k_worker' = [k_worker EXCEPT ![p] = "done"]
  /\ k_completed' = Append(k_completed, p)
  /\ k_overlap' = (k_overlap \/ Writing)
  /\ k_race' = (k_race \/ Racing(p, Range(source_files(k_fs, p))))
  /\ UNCHANGED <<k_pc, k_projects, k_orig, k_fs, k_i, k_main, k_status,
                 k_rechecks>>
  /\ UNCHANGED NotPhase

\* the main thread has run the loop body up to r
KGoOn(p, r) ==
  /\ k_fs' = r.fs
  /\ k_main' = r.main
  /\ IF r.done
       THEN /\ k_status' = [k_status EXCEPT ![p] = r.status]
            /\ k_rechecks' = [k_rechecks EXCEPT ![p] = r.rechecks]
            /\ k_i' = k_i + 1
       ELSE UNCHANGED <<k_status, k_rechecks, k_i>>
  /\ UNCHANGED <<k_pc, k_projects, k_orig, k_worker, k_future, k_completed,
                 k_overlap, k_race>>
  /\ UNCHANGED NotPhase

\* the main thread takes the next completed future from as_completed
KHandleFuture ==
  /\ k_pc = "pool"
  /\ ~Writing
  /\ k_i < Len(k_completed)
  /\ \E r \in {handle_future(k_fs, k_completed[k_i + 1],
                             k_future[k_completed[k_i + 1]])} :
       KGoOn(k_completed[k_i + 1], r)

\* the main thread writes and closes the file it has open, and goes on
KWriteEnd ==
  /\ k_pc = "pool"
  /\ Writing
  /\ \E r \in {close_and_go_on(k_fs, k_main, k_future[k_main.project])} :
       KGoOn(k_main.project, r)

\* every future was handled: the pool is shut down
KPoolEnd ==
  /\ k_pc = "pool"
  /\ k_i = Len(k_projects)
  /\ k_pc' = "done"
  /\ UNCHANGED <<k_projects, k_orig, k_fs, k_worker, k_future, k_completed,
                 k_i, k_main, k_status, k_rechecks, k_overlap, k_race>>
  /\ UNCHANGED NotPhase

KNext ==
  \/ \E p \in Range(k_projects) : KWorkerYaml(p)
  \/ \E p \in Range(k_projects) : KWorkerWalk(p)
  \/ KHandleFuture
  \/ KWriteEnd
  \/ KPoolEnd

\* the phase is over for project p
Handled(p) == k_status[p] # "PENDING"

\* the spellings of the phrases of a list of entries of ai_references_found
\* that remediation replaces: lower-case, capitalized and all-caps
ReplacedSpellings(entries) ==
  UNION {{replacements[k].old, replacements[k].old_title, replacements[k].old_upper} :
           k \in {j \in DOMAIN replacements :
                    AiReference(replacements[j].old) \in Range(entries)}}

\* the only violation of project p when the phase began was a lower-case
\* forbidden phrase in its project.yaml
OnlyLowerCasePhrase(p) ==
  /\ check_project_compliance(k_orig, p).issues = <<"AI reference found">>
  /\ \E k \in DOMAIN ai_patterns :
       ai_patterns[k] \in Range(k_orig[<<p, "project.yaml">>].text)

\* C12: once the phase is over for a project whose check failed, the
\* project.yaml in which a forbidden phrase was found holds the phrase in
\* none of its lower-case, capitalized and all-caps spellings, the project was
\* re-checked exactly once, its status is COMPLIANCE_PASSED iff a check of its
\* files finds no issue, and a project whose only violation was a lower-case
\* phrase in its project.yaml is COMPLIANCE_PASSED
C12_ForbiddenPhraseRemediated ==
  \A p \in Range(k_projects) :
    (Handled(p) /\ ~k_future[p].success) =>
      /\ k_future[p].ai_references_found # <<>> =>
           Range(k_fs[<<p, "project.yaml">>].text)
             \cap ReplacedSpellings(k_future[p].ai_references_found) = {}
      /\ k_rechecks[p] = 1
      /\ k_status[p] = "COMPLIANCE_PASSED"
           <=> (~Writing => check_project_compliance(k_fs, p).success)
      /\ OnlyLowerCasePhrase(p) => k_status[p] = "COMPLIANCE_PASSED"

\* C20: no worker read a file that the fix of another project had open for
\* writing, and every project the phase is over for has the status the phase
\* gives it when it is checked alone
C20_ChecksIndependent ==
  /\ ~k_race
  /\ \A p \in Range(k_projects) :
       Handled(p) => k_status[p] = checked_alone(k_orig, p).status

\* two projects, handled in the reverse of their submission order, the check
\* of the one running while the fix of the other wrote a file; the fix made
\* the one pass and the other was left failing
C20_Witness ==
  /\ k_pc = "done"
  /\ k_completed = <<"nginx", "curl">>
  /\ k_overlap
  /\ k_status["nginx"] = "COMPLIANCE_PASSED" /\ k_rechecks["nginx"] = 1
  /\ k_status["curl"] = "COMPLIANCE_FAILED"

\* the status changes the Master deployer's project life cycle allows
MasterTransitions ==
  { <<"pending", "compliance_check">>,
    <<"compliance_check", "failed">>, <<"compliance_check", "build_validation">>,
    <<"build_validation", "failed">>, <<"build_validation", "deployment_ready">>,
    <<"deployment_ready", "deploying">>,
    <<"deploying", "failed">>, <<"deploying", "online">> }

\* every status change project p has undergone is an allowed one
FollowsLifeCycle(p) ==
  \A k \in 1..(Len(m_history[p]) - 1) :
    <<m_history[p][k], m_history[p][k + 1]>> \in MasterTransitions

FIdle == f_pc = "idle" /\ f_in = <<>> /\ f_out = <<>>

\* the six high-risk patterns in a fixed order, each as one word of a message
PatternWords ==
  << Word("heap-buffer-overflow", 20), Word("use-after-free", 14),
     Word("double-free", 11), Word("buffer overflow", 15),
     Word("memory corruption", 17), Word("segmentation fault", 18) >>

\* the message holding the words of PatternWords whose index is in S
MessageOf(S) ==
  LET F[i \in 0..Len(PatternWords)] ==
        IF i = 0 THEN <<>>
        ELSE IF i \in S THEN Append(F[i - 1], PatternWords[i]) ELSE F[i - 1]
  IN  F[Len(PatternWords)]

RiskCrashTypes ==
  {"", "heap-buffer-overflow", "heap_buffer_overflow", "use-after-free",
   "SEGV: Segmentation Fault"}

RiskSizes == {0, 100, 101, 1000, 1001, 2000}

RiskReports ==
  [ keys          : {AllKeys, AllKeys \ {"input_info"}},
    crash_type    : RiskCrashTypes,
    stack_trace   : {""},
    error_message : {MessageOf(S) : S \in SUBSET (1..Len(PatternWords))},
    size          : RiskSizes ]

RInit == f_pc = "ready" /\ f_in \in RiskReports /\ f_out = <<>>

RApply ==
  /\ f_pc = "ready"
  /\ f_out' = calculate_exploit_risk(f_in)
  /\ f_pc' = "done"
  /\ UNCHANGED <<f_in, NotFunction>>

\* the high-risk substrings of a lower-cased crash type
PatternsOfType(crash_type) ==
  CASE crash_type = "heap-buffer-overflow" -> {"heap-buffer-overflow"}
    [] crash_type = "use-after-free" -> {"use-after-free"}
    [] crash_type = "SEGV: Segmentation Fault" -> {"segmentation fault"}
    [] OTHER -> {}

PatternsOfReport(report) ==
  PatternsOfType(report.crash_type)
    \cup {report.error_message[i].val : i \in 1..Len(report.error_message)}

StatedSize(report) == IF "input_info" \in report.keys THEN report.size ELSE 0

\* C22: the exploit-risk score, in tenths, is the smaller of 10 and 3 for each
\* of the six high-risk substrings that occur in the crash type or the error
\* message, plus 2 if the stated input size exceeds 1000, else plus 1 if it
\* exceeds 100; it is always between 0 and 10.
C22_ExploitRiskAdditiveClamped ==
  f_pc = "done" =>
    LET n     == Cardinality(PatternsOfReport(f_in))
        bonus == IF StatedSize(f_in) > 1000 THEN 2
                 ELSE IF StatedSize(f_in) > 100 THEN 1 ELSE 0
        raw   == 3 * n + bonus
    IN  /\ f_out = (IF raw > 10 THEN 10 ELSE raw)
        /\ f_out >= 0 /\ f_out <= 10

\* all six substrings and an input of 2000 bytes: the sum 20 is clamped to 10
C22_Witness ==
  /\ f_pc = "done"
  /\ f_in.error_message = MessageOf(1..6)
  /\ f_in.crash_type = ""
  /\ StatedSize(f_in) = 2000
  /\ f_out = 10

\* two substrings and an input of 2000 bytes give 8, below the clamp
C22_TwoPatterns ==
  f_pc = "done" /\ f_in.error_message = MessageOf({1, 2}) /\ f_in.crash_type = ""
                /\ StatedSize(f_in) = 2000 => f_out = 8

(***************************************************************************)
(* The compliance check of one project directory, file by file             *)
(*                                                                         *)
(* A project is the sequence of its files in the order of a directory      *)
(* walk; a file has the depth of its directory below the project (1 is the *)
(* project directory itself), a base name, a mode and a text.  The text is *)
(* a sequence of blocks: "notice" is a line holding the words              *)
(* Copyright 2025 Google LLC, "lower-case notice" and "upper-case notice"  *)
(* are the same line in another case, the other blocks are words.          *)
(***************************************************************************)

Suffix(name) ==
  CASE name \in {"fuzz.py", "master-compliance-deploy.py"} -> ".py"
    [] name = "fuzz.c" -> ".c"
    [] name = "ci.yml" -> ".yml"
    [] name = "project.yaml" -> ".yaml"
    [] name = "build.sh" -> ".sh"
    [] name = "README.md" -> ".md"
    [] OTHER -> ""

\* the blocks re.compile(r'Copyright 2025 Google LLC', re.IGNORECASE) matches
google_copyright_pattern ==
  {"license", "notice", "lower-case notice", "upper-case notice"}

m_excluded_files ==
  {"orchestrate-rollout.py", "rapid_expand.py", "automated-rollout.yml",
   "master-compliance-deploy.py", "deploy.sh", "build.sh"}

\* Master: _check_file_compliance
m_check_file_compliance(file) ==
  IF file.mode = "absent" THEN TRUE
  ELSE IF file.mode = "none" THEN FALSE
  ELSE IF file.name \in m_excluded_files THEN TRUE
  ELSE IF /\ Suffix(file.name) \in {".py", ".js", ".ts", ".go", ".java"}
          /\ Range(file.text) \cap google_copyright_pattern = {}
    THEN FALSE
  ELSE \A k \in DOMAIN ai_patterns : ~InLower(ai_patterns[k], file.text)

Select(project, Test(_)) ==
  LET F[i \in 0..Len(project)] ==
        IF i = 0 THEN <<>>
        ELSE IF Test(project[i]) THEN Append(F[i - 1], project[i]) ELSE F[i - 1]
  IN  F[Len(project)]

\* Master: path.rglob("*" + suffix)
rglob(project, suffix) ==
  LET HasSuffix(file) == Suffix(file.name) = suffix
  IN  Select(project, HasSuffix)

\* Master: _check_project_compliance; the names of the files its issues list
m_check_project_compliance(project) ==
  LET AtTop(file) == file.dir = 1 /\ file.name = "project.yaml"
      Failing(file) == ~m_check_file_compliance(file)
      checked == Select(project, AtTop) \o rglob(project, ".py")
                   \o rglob(project, ".js") \o rglob(project, ".ts")
                   \o rglob(project, ".yml") \o rglob(project, ".yaml")
      failing == Select(checked, Failing)
  IN  [success |-> failing = <<>>,
       flagged |-> {failing[i].name : i \in DOMAIN failing}]

\* Comprehensive: check_project_compliance over such a directory, whose
\* project.yaml is readable and well formed
check_project_tree(project) ==
  LET AtTop(file) == file.dir = 1 /\ file.name = "project.yaml"
      yaml  == Select(project, AtTop)[1]
      found == IF compliance.check_ai_references
                 THEN FoundPatterns(yaml.text, 1) ELSE <<>>
      Source(file) == Suffix(file.name) \in {".py", ".js", ".java", ".cpp", ".c", ".h"}
      Missing(file) == /\ should_check_file(<<file.dir, file.name>>)
                       /\ ~has_copyright_header(file)
      missing == IF compliance.check_copyright_headers
                   THEN Select(Select(project, Source), Missing) ELSE <<>>
      required == {n \in {"Dockerfile", "build.sh"} :
                     ~\E i \in DOMAIN project :
                        project[i].dir = 1 /\ project[i].name = n}
  IN  [success |-> found = <<>> /\ missing = <<>> /\ required = {},
       flagged |-> (IF found = <<>> THEN {} ELSE {"project.yaml"})
                     \cup {missing[i].name : i \in DOMAIN missing}]

MaxDepth == 2

TreeBlocks ==
  {"notice", "lower-case notice", "upper-case notice", "code", "ai-powered",
   "AI-powered"}

TreeTexts == UNION {[1..n -> TreeBlocks] : n \in 0..2}

TreeNames == {"fuzz.py", "master-compliance-deploy.py", "fuzz.c", "ci.yml", "README.md"}

TreeFiles ==
  [dir : 1..MaxDepth, name : TreeNames, mode : {"rw", "none"}, text : TreeTexts]

Plain(name, text) == [dir |-> 1, name |-> name, mode |-> "rw", text |-> text]

\* a project directory with its project.yaml, Dockerfile and build.sh, and one
\* more file somewhere below it
Trees ==
  { << Plain("project.yaml", yaml), Plain("Dockerfile", <<"code">>),
       Plain("build.sh", <<"code">>), file >> :
      yaml \in {<<"code">>, <<"AI-powered">>}, file \in TreeFiles }

TInit ==
  /\ f_pc = "ready"
  /\ f_in \in [deployer : {"master", "comprehensive"}, project : Trees]
  /\ f_out = <<>>

\* the check of the one file that varies
TCheckFile ==
  /\ f_pc = "ready"
  /\ LET file == f_in.project[Len(f_in.project)]
     IN  f_out' = IF f_in.deployer = "master"
                    THEN m_check_file_compliance(file)
                    ELSE has_copyright_header(file)
  /\ f_pc' = "file"
  /\ UNCHANGED <<f_in, NotFunction>>

\* the check of the project
TCheckProject ==
  /\ f_pc = "ready"
  /\ f_out' = IF f_in.deployer = "master"
                THEN m_check_project_compliance(f_in.project)
                ELSE check_project_tree(f_in.project)
  /\ f_pc' = "project"
  /\ UNCHANGED <<f_in, NotFunction>>

TheFile == f_in.project[Len(f_in.project)]

HasPhrase(file) == \E k \in DOMAIN ai_patterns : InLower(ai_patterns[k], file.text)

\* the source files on which the named deployer makes its copyright check
CheckedSource(deployer, file) ==
  IF deployer = "master"
    THEN Suffix(file.name) = ".py" /\ file.name \notin m_excluded_files
    ELSE Suffix(file.name) \in {".py", ".c"}
         /\ file.name \notin compliance.exclude_files

\* C23: in both deployers a readable source file on which the copyright check
\* is made, and which holds no forbidden phrase, passes the check iff it holds
\* the words Copyright 2025 Google LLC in exactly that case; a file holding
\* them only in lower case fails.
C23_CopyrightExactCase ==
  /\ f_pc = "file"
  /\ TheFile.mode = "rw"
  /\ CheckedSource(f_in.deployer, TheFile)
  /\ ~HasPhrase(TheFile)
  => (f_out <=> "notice" \in Range(TheFile.text))

\* the excluded names of the named deployer
Excluded(deployer) ==
  IF deployer = "master" THEN m_excluded_files ELSE compliance.exclude_files

\* C24: a file whose base name is on the exclude list is flagged by neither
\* check at any depth, and a project holding a file of any other name with a
\* forbidden phrase in it fails compliance.
C24_ExcludeByBaseName ==
  f_pc = "project" =>
    /\ TheFile.name \in Excluded(f_in.deployer) => TheFile.name \notin f_out.flagged
    /\ TheFile.name \notin Excluded(f_in.deployer) /\ TheFile.mode = "rw"
         /\ HasPhrase(TheFile) => ~f_out.success

(***************************************************************************)
(* The crash processor                                                     *)
(*                                                                         *)
(* The text of a crash file is the sequence of its lines, a line is the    *)
(* sequence of its words (the pieces between white space).  What the       *)
(* parser and the regular expressions read inside a word is tabulated for  *)
(* the words of the fixture of src/test_integration.py and of one SEGV     *)
(* report line.                                                            *)
(***************************************************************************)

\* the substrings _parse_text_crash_report searches that the lower-cased
\* word holds
Found(word) ==
  CASE word = "==31337==ERROR:" -> {"error"}
    [] word = "AddressSanitizer:" -> {"sanitizer"}
    [] word = "heap-buffer-overflow" -> {"heap-buffer-overflow", "overflow"}
    [] word = "SEGV" -> {"segv"}
    [] OTHER -> {}

\* the words made of letters, digits and underscores only
WholeWords ==
  {"on", "address", "0x60200000eff4", "at", "pc", "0x0000004f5e35", "bp",
   "0x7fff8dbcb890", "sp", "0x7fff8dbcb888", "WRITE", "of", "size", "4",
   "thread", "T0", "0x4f5e35", "in", "parse_input", "0x4f5d20",
   "LLVMFuzzerTestOneInput", "0x445c76", "char", "unsigned", "0x42f4a2",
   "is", "located", "bytes", "to", "the", "right", "region", "allocated",
   "by", "0x4f3c28", "malloc", "0x4f5d10", "Shadow", "around", "buggy",
   "00", "fa", "2", "base", "adc83b19e793491b1c6ea0fd8b46cd9f32e592fc",
   "Test", "unit", "written", "SEGV", "unknown", "0x000000000000"}

\* re.match(r'\w+', word): the letters, digits and underscores a word begins
\* with, "" if it begins with another character
Leading(word) ==
  IF word \in WholeWords THEN word
  ELSE CASE word = "AddressSanitizer:" -> "AddressSanitizer"
         [] word = "heap-buffer-overflow" -> "heap"
         [] word = "fuzzer::Fuzzer::ExecuteCallback(unsigned" -> "fuzzer"
         [] word = "const*," -> "const"
         [] word = "long)" -> "long"
         [] word = "fuzzer::RunOneTest(fuzzer::Fuzzer*," -> "fuzzer"
         [] word = "1000-byte" -> "1000"
         [] word = "here:" -> "here"
         [] word = "SUMMARY:" -> "SUMMARY"
         [] word = "address:" -> "address"
         [] word = "0x0c048000ddb0:" -> "0x0c048000ddb0"
         [] word = "0x0c048000dde0:" -> "0x0c048000dde0"
         [] word = "00[04]fa" -> "00"
         [] word = "0x0c048000de00:" -> "0x0c048000de00"
         [] word = "MS:" -> "MS"
         [] word = "ChangeByte-EraseBytes-;" -> "ChangeByte"
         [] word = "unit:" -> "unit"
         [] word = "artifact_prefix='./';" -> "artifact_prefix"
         [] OTHER -> ""

\* re.search(r'(\w+)\(', word): the name before a parenthesis inside a word
CallIn(word) ==
  CASE word = "fuzzer::Fuzzer::ExecuteCallback(unsigned" -> "ExecuteCallback"
    [] word = "fuzzer::RunOneTest(fuzzer::Fuzzer*," -> "RunOneTest"
    [] OTHER -> ""

\* re.search(r'\w+$', word): the letters, digits and underscores a word ends with
Trailing(word) ==
  IF word \in WholeWords THEN word
  ELSE CASE word = "heap-buffer-overflow" -> "overflow"
         [] word = "#0" -> "0"
         [] word = "/src/fuzzer_target.c:127:9" -> "9"
         [] word = "#1" -> "1"
         [] word = "/src/fuzzer_target.c:89:5" -> "5"
         [] word = "#2" -> "2"
         [] word = "fuzzer::Fuzzer::ExecuteCallback(unsigned" -> "unsigned"
         [] word = "/src/llvm-project/compiler-rt/lib/fuzzer/FuzzerLoop.cpp:611:15" -> "15"
         [] word = "#3" -> "3"
         [] word = "/src/llvm-project/compiler-rt/lib/fuzzer/FuzzerDriver.cpp:324:6" -> "6"
         [] word = "1000-byte" -> "byte"
         [] word = "/src/fuzzer_target.c:125:15" -> "15"
         [] word = "00[04]fa" -> "fa"
         [] word = "./crash-da39a3ee5e6b4b0d3255bfef95601890afd80709" -> "da39a3ee5e6b4b0d3255bfef95601890afd80709"
         [] OTHER -> ""

\* word.endswith(s) and word.startswith(s) for s = 'at' and s = 'in': of these
\* words only at and in themselves end or begin so
EndsWith(word, s) == word = s

BeginsWith(word, s) == word = s

\* the words that begin with '#', with '#0' (no other word holds '#0') and with '('
Numbered == {"#0", "#1", "#2", "#3"}

NumberedZero == {"#0"}

Opening == {"(/out/fuzzer_target+0x4f3c28)"}

\* the fixture of create_test_crash, split at the line ends
Fixture ==
  << <<"==31337==ERROR:", "AddressSanitizer:", "heap-buffer-overflow", "on", "address", "0x60200000eff4", "at", "pc", "0x0000004f5e35", "bp", "0x7fff8dbcb890", "sp", "0x7fff8dbcb888">>,
     <<"WRITE", "of", "size", "4", "at", "0x60200000eff4", "thread", "T0">>,
     <<"#0", "0x4f5e35", "in", "parse_input", "/src/fuzzer_target.c:127:9">>,
     <<"#1", "0x4f5d20", "in", "LLVMFuzzerTestOneInput", "/src/fuzzer_target.c:89:5">>,
     <<"#2", "0x445c76", "in", "fuzzer::Fuzzer::ExecuteCallback(unsigned", "char", "const*,", "unsigned", "long)", "/src/llvm-project/compiler-rt/lib/fuzzer/FuzzerLoop.cpp:611:15">>,
     <<"#3", "0x42f4a2", "in", "fuzzer::RunOneTest(fuzzer::Fuzzer*,", "char", "const*,", "unsigned", "long)", "/src/llvm-project/compiler-rt/lib/fuzzer/FuzzerDriver.cpp:324:6">>,
     <<>>,
     <<"0x60200000eff4", "is", "located", "4", "bytes", "to", "the", "right", "of", "1000-byte", "region", "[0x60200000ebf0,0x60200000eff0)">>,
     <<"allocated", "by", "thread", "T0", "here:">>,
     <<"#0", "0x4f3c28", "in", "malloc", "(/out/fuzzer_target+0x4f3c28)">>,
     <<"#1", "0x4f5d10", "in", "parse_input", "/src/fuzzer_target.c:125:15">>,
     <<>>,
     <<"SUMMARY:", "AddressSanitizer:", "heap-buffer-overflow", "/src/fuzzer_target.c:127:9", "in", "parse_input">>,
     <<"Shadow", "bytes", "around", "the", "buggy", "address:">>,
     <<"0x0c048000ddb0:", "00", "00", "00", "00", "00", "00", "00", "00", "00", "00", "00", "00", "00", "00", "00", "00">>,
     <<"0x0c048000dde0:", "00", "00", "00", "00", "00", "00", "00", "00", "00", "00", "00", "00", "00", "00", "00", "00">>,
     <<"=>0x0c048000ddf0:", "00", "00", "00", "00", "00", "00", "00", "00", "00", "00", "00", "00", "00", "00[04]fa">>,
     <<"0x0c048000de00:", "fa", "fa", "fa", "fa", "fa", "fa", "fa", "fa", "fa", "fa", "fa", "fa", "fa", "fa", "fa", "fa">>,
     <<"MS:", "2", "ChangeByte-EraseBytes-;", "base", "unit:", "adc83b19e793491b1c6ea0fd8b46cd9f32e592fc">>,
     <<>>,
     <<"artifact_prefix='./';", "Test", "unit", "written", "to", "./crash-da39a3ee5e6b4b0d3255bfef95601890afd80709">>,
     <<>> >>

SegvLine ==
  <<"==31337==ERROR:", "AddressSanitizer:", "SEGV", "on", "unknown", "address", "0x000000000000">>

\* 'at ' in line
HasAt(line) == \E j \in 1..(Len(line) - 1) : EndsWith(line[j], "at")

\* _parse_text_crash_report
parse_text_crash_report(content) ==
  LET FoundIn(line) == UNION {Found(line[j]) : j \in DOMAIN line}
      all == UNION {FoundIn(content[i]) : i \in DOMAIN content}
      crash_type ==
        IF "heap-buffer-overflow" \in all THEN "heap_buffer_overflow"
        ELSE IF "stack-buffer-overflow" \in all THEN "stack_buffer_overflow"
        ELSE IF "use-after-free" \in all THEN "use_after_free"
        ELSE IF "double-free" \in all THEN "double_free"
        ELSE IF "segv" \in all \/ "segmentation" \in all THEN "segmentation_fault"
        ELSE IF "abort" \in all THEN "abort"
        ELSE "unknown"
      informative == {i \in DOMAIN content :
                        \E j \in DOMAIN content[i] :
                           Found(content[i][j]) \cap {"error", "overflow", "sanitizer"} # {}}
      starts == {i \in DOMAIN content :
                   \/ content[i] # <<>> /\ content[i][1] \in NumberedZero
                   \/ HasAt(content[i])}
      InTrace(line) == \/ line # <<>> /\ line[1] \in Numbered
                       \/ HasAt(line)
                       \/ line = <<>>
      stack_start == Least(starts)
      stack_end == Least({e \in (stack_start + 1)..(Len(content) + 1) :
                            e = Len(content) + 1 \/ ~InTrace(content[e])})
  IN  [ type          |-> "dict",
        empty         |-> FALSE,
        crash_type    |-> crash_type,
        error_message |-> IF informative = {} THEN <<>> ELSE content[Least(informative)],
        stack_trace   |-> IF starts = {} THEN <<>>
                          ELSE SubSeq(content, stack_start, stack_end - 1),
        sanitizer_output |-> "str",
        size          |-> 0 ]

\* the four patterns of _extract_top_function on one line; "" is no match
in_after_frame(line) ==
  LET frames == {i \in DOMAIN line : line[i] \in NumberedZero}
      ins == {j \in 1..(Len(line) - 1) :
                j >= Least(frames) /\ EndsWith(line[j], "in") /\ Leading(line[j + 1]) # ""}
  IN  IF frames = {} \/ ins = {} THEN "" ELSE Leading(line[Greatest(ins) + 1])

after_at(line) ==
  LET ats == {j \in 1..(Len(line) - 1) :
                EndsWith(line[j], "at") /\ Leading(line[j + 1]) # ""}
  IN  IF ats = {} THEN "" ELSE Leading(line[Least(ats) + 1])

before_parenthesis(line) ==
  LET calls == {i \in DOMAIN line :
                  \/ CallIn(line[i]) # ""
                  \/ Trailing(line[i]) # "" /\ i < Len(line) /\ line[i + 1] \in Opening}
      i == Least(calls)
  IN  IF calls = {} THEN ""
      ELSE IF CallIn(line[i]) # "" THEN CallIn(line[i]) ELSE Trailing(line[i])

in_before_at(line) ==
  LET ins == {j \in 1..(Len(line) - 2) :
                /\ EndsWith(line[j], "in")
                /\ line[j + 1] \in WholeWords
                /\ BeginsWith(line[j + 2], "at")}
  IN  IF ins = {} THEN "" ELSE line[Least(ins) + 1]

first_pattern(line) ==
  IF in_after_frame(line) # "" THEN in_after_frame(line)
  ELSE IF after_at(line) # "" THEN after_at(line)
  ELSE IF before_parenthesis(line) # "" THEN before_parenthesis(line)
  ELSE in_before_at(line)

\* _extract_top_function on a stack trace of lines: the first match on the
\* first five lines, "None" without one
extract_top_function(stack_trace) ==
  LET matching == {i \in 1..Min(Len(stack_trace), 5) : first_pattern(stack_trace[i]) # ""}
  IN  IF matching = {} THEN "None" ELSE first_pattern(stack_trace[Least(matching)])

\* LeanEmbeddingIntelligence.__init__: the attributes assigned before
\* _load_daily_cost is called, and the call, which reads self.cache_dir
AssignedBeforeLoad == {"config", "daily_budget", "cost_per_embedding"}

load_daily_cost(attributes) ==
  IF "cache_dir" \in attributes THEN "cost" ELSE "AttributeError"

\* OSSFuzzIntelligentProcessor.__init__: the value of self.intelligence, or the
\* exception of the engine's constructor
processor_init(enabled, available) ==
  IF enabled /\ available
    THEN (IF load_daily_cost(AssignedBeforeLoad) = "AttributeError"
            THEN "AttributeError" ELSE "engine")
    ELSE "None"

NoReport ==
  [type |-> "None", empty |-> TRUE, crash_type |-> "", error_message |-> <<>>,
   stack_trace |-> <<>>, sanitizer_output |-> "absent", size |-> 0]

\* _load_crash_file: a JSON file gives whatever value it holds
load_crash_file(file) ==
  IF file.kind = "absent" THEN NoReport
  ELSE IF file.kind = "json"
    THEN (IF file.json.type = "invalid" THEN NoReport
          ELSE [NoReport EXCEPT !.type = file.json.type,
                                !.empty = file.json.empty,
                                !.crash_type = IF file.json.type = "dict" /\ ~file.json.empty
                                                 THEN "heap-buffer-overflow" ELSE "",
                                !.sanitizer_output = file.json.sanitizer_output])
  ELSE parse_text_crash_report(file.content)

\* _add_crash_context with _find_input_file and _analyze_input_file: companion
\* is the size of the input file found, -1 without one
add_crash_context(report, companion) ==
  IF companion >= 0 THEN [report EXCEPT !.size = companion] ELSE report

Result(keys, crash_type, signature, risk) ==
  [raised |-> "", keys |-> keys, crash_type |-> crash_type,
   crash_signature |-> signature, exploit_risk_score |-> risk]

Raised(exception) == [Result({}, "", "", 0) EXCEPT !.raised = exception]

\* _fallback_processing
fallback_processing(report) ==
  IF report.sanitizer_output = "number" THEN Raised("TypeError")
  ELSE Result({"crash_signature", "crash_type", "fallback_mode", "file_path", "basic_info"},
              IF report.crash_type = "" THEN "unknown" ELSE report.crash_type,
              "basic_hash", 0)

\* the report as the engine's scoring reads it
AsEngineReport(report) ==
  [keys |-> AllKeys, crash_type |-> report.crash_type, stack_trace |-> "",
   error_message |-> [j \in DOMAIN report.error_message |->
                        Word(report.error_message[j], Len(report.error_message[j]))],
   size |-> report.size]

\* process_crash_file on a processor whose self.intelligence is given
process_crash_file(intelligence, file, companion) ==
  LET crash_report == load_crash_file(file)
  IN  IF crash_report.type = "None" \/ crash_report.empty
        THEN Result({"error", "file"}, "", "", 0)
      ELSE IF crash_report.type # "dict" THEN Raised("TypeError")
      ELSE IF intelligence = "None"
        THEN fallback_processing(add_crash_context(crash_report, companion))
      ELSE Result(LocalKeys, "", "md5",
                  calculate_exploit_risk(
                    AsEngineReport(add_crash_context(crash_report, companion))))

MaxLines == 3

\* the lines the texts of crash files are made of
ReportLines ==
  {Fixture[1], Fixture[2], Fixture[3], Fixture[4], Fixture[8], Fixture[13],
   SegvLine, <<>>}

ReportTexts == {Fixture} \cup UNION {[1..n -> ReportLines] : n \in 0..MaxLines}

JsonValues ==
  [type : {"dict", "list"}, empty : BOOLEAN, sanitizer_output : {"absent", "str", "number"}]
    \cup {[type |-> "invalid", empty |-> TRUE, sanitizer_output |-> "absent"]}

NoJson == [type |-> "none", empty |-> TRUE, sanitizer_output |-> "absent"]

CrashFiles ==
  {[kind |-> "absent", content |-> <<>>, json |-> NoJson]}
    \cup {[kind |-> "text", content |-> t, json |-> NoJson] : t \in ReportTexts}
    \cup {[kind |-> "json", content |-> <<>>, json |-> v] : v \in JsonValues}

LargeInput == 2000

PInit ==
  /\ f_pc = "ready"
  /\ f_in \in [enabled : BOOLEAN, available : BOOLEAN, file : CrashFiles,
               companion : {-1, LargeInput}]
  /\ f_out = <<>>

\* OSSFuzzIntelligentProcessor(project_name).process_crash_file(crash_file)
PProcess ==
  /\ f_pc = "ready"
  /\ LET intelligence == processor_init(f_in.enabled, f_in.available)
         report == load_crash_file(f_in.file)
     IN  f_out' =
           [ result |-> IF intelligence = "AttributeError" THEN Raised("AttributeError")
                        ELSE process_crash_file(intelligence, f_in.file, f_in.companion),
             crash_type |-> report.crash_type,
             top_function |-> extract_top_function(report.stack_trace) ]
  /\ f_pc' = "processed"
  /\ UNCHANGED <<f_in, NotFunction>>

\* main() of the processor with a crash file argument: the exit status
PMain ==
  /\ f_pc = "ready"
  /\ LET intelligence == processor_init(f_in.enabled, f_in.available)
         result == IF intelligence = "AttributeError" THEN Raised("AttributeError")
                   ELSE process_crash_file(intelligence, f_in.file, f_in.companion)
     IN  f_out' = [ result |-> result,
                    exit |-> IF result.raised # "" \/ "error" \in result.keys
                               THEN 1 ELSE 0 ]
  /\ f_pc' = "exited"
  /\ UNCHANGED <<f_in, NotFunction>>

\* C25: for the AddressSanitizer fixture with no companion input file the
\* processor classifies the crash as heap_buffer_overflow, the top function
\* extracted from the parsed stack trace is parse_input, and the result holds
\* an exploit risk of at least 0.3 and a crash signature that is not empty.
C25_FixtureEndToEnd ==
  /\ f_pc = "processed"
  /\ f_in.file.kind = "text"
  /\ f_in.file.content = Fixture
  /\ f_in.companion = -1
  => /\ f_out.crash_type = "heap_buffer_overflow"
     /\ f_out.top_function = "parse_input"
     /\ "exploit_risk_score" \in f_out.result.keys
     /\ f_out.result.exploit_risk_score >= 3
     /\ "crash_signature" \in f_out.result.keys
     /\ f_out.result.crash_signature # ""

\* a crash file that exists and can be loaded
Loadable(file) == file.kind = "text" \/ (file.kind = "json" /\ file.json.type # "invalid")

\* C27: process_crash_file on a crash file that exists and can be loaded does
\* not raise and returns a result without an error: the engine's analysis when
\* intelligence is enabled and available, the fallback result otherwise; a
\* missing or unloadable file gives an error result, and the command line
\* exits with a non-zero status exactly for such a file.
C27_NeverRaisesFallsBack ==
  /\ f_pc = "processed" /\ Loadable(f_in.file) =>
       /\ f_out.result.raised = ""
       /\ "error" \notin f_out.result.keys
       /\ IF f_in.enabled /\ f_in.available
            THEN "exploit_risk_score" \in f_out.result.keys
            ELSE "fallback_mode" \in f_out.result.keys
  /\ f_pc = "processed" /\ ~Loadable(f_in.file) =>
       f_out.result.raised = "" /\ "error" \in f_out.result.keys
  /\ f_pc = "exited" => (f_out.exit # 0 <=> ~Loadable(f_in.file))


(***************************************************************************)
(* The wrappers of the embedding helper around a build or reproduce        *)
(* operation                                                               *)
(***************************************************************************)

\* the values an operation is called with and returns: strings, and an
\* argparse.Namespace as the first positional argument
IsString(value) == value # "Namespace"

\* bool(value)
Truthy(value) == value \notin {"False", "None", ""}

\* kwargs.get('project_name') or (args[0] if args else 'unknown')
project_name_of(args, kwargs) ==
  IF Truthy(kwargs.project_name) THEN kwargs.project_name
  ELSE IF args # <<>> THEN args[1] ELSE "unknown"

\* (base_dir / project_name).mkdir(parents=True, exist_ok=True): the exception
\* raised, "" if none; makeable says the directory exists or can be made
mkdir_under(project_name, makeable) ==
  IF ~IsString(project_name) THEN "TypeError"
  ELSE IF ~makeable THEN "OSError" ELSE ""

\* setup_intelligence_environment: the exception raised, "" if none
setup_intelligence_environment(enabled, project_name, makeable) ==
  IF ~enabled THEN "" ELSE mkdir_under(project_name, makeable)

\* print_intelligence_banner, which reads float(EMBEDDING_BUDGET_DAILY)
print_intelligence_banner(enabled, budget) ==
  IF enabled /\ budget \notin {"2.0", "5"} THEN "ValueError" ELSE ""

\* enhance_build_with_intelligence, which formats the project name into the
\* path, makes the directory and puts the name in os.environ
enhance_build_with_intelligence(enabled, project_name, makeable) ==
  IF ~enabled THEN ""
  ELSE IF ~makeable THEN "OSError"
  ELSE IF ~IsString(project_name) THEN "TypeError" ELSE ""

Outcome(calls, passed, raised, returned, analysed) ==
  [calls |-> calls, passed |-> passed, raised |-> raised, returned |-> returned,
   analysed |-> analysed]

NotCalled == [args |-> <<>>, kwargs |-> [project_name |-> ""]]

\* enhanced_build_fuzzers, the function wrap_build_fuzzers_with_intelligence
\* returns, around an operation that returns call.result
enhanced_build_fuzzers(call) ==
  LET project_name == project_name_of(call.args, call.kwargs)
      setup  == setup_intelligence_environment(call.enabled, project_name, call.makeable)
      banner == print_intelligence_banner(call.enabled, call.budget)
      caller == [args |-> call.args, kwargs |-> call.kwargs]
      post   == IF call.enabled /\ Truthy(call.result)
                  THEN enhance_build_with_intelligence(call.enabled, project_name,
                                                       call.makeable_after)
                  ELSE ""
  IN  IF setup # "" THEN Outcome(0, NotCalled, setup, "", 0)
      ELSE IF banner # "" THEN Outcome(0, NotCalled, banner, "", 0)
      ELSE IF post # "" THEN Outcome(1, caller, post, "", 0)
      ELSE Outcome(1, caller, "", call.result, 0)

\* enhanced_reproduce, the function wrap_reproduce_with_intelligence returns:
\* every crash file found is analysed inside a try, and analyze_crash_intelligently
\* turns its own exceptions into a result
enhanced_reproduce(call) ==
  Outcome(1, [args |-> call.args, kwargs |-> call.kwargs], "", call.result,
          IF call.enabled /\ Truthy(call.result) THEN call.crash_files ELSE 0)

MaxCrashFiles == 2

WrapperCalls ==
  [ enabled        : BOOLEAN,
    args           : {<<>>, <<"curl">>, <<"Namespace">>},
    kwargs         : [project_name : {"", "nginx"}],
    makeable       : BOOLEAN,
    makeable_after : BOOLEAN,
    budget         : {"2.0", "lots"},
    result         : {"True", "False", "None", "built"},
    crash_files    : 0..MaxCrashFiles,
    analysis       : {"success", "failure", "raises"} ]

WInit == f_pc = "ready" /\ f_in \in WrapperCalls /\ f_out = <<>>

WBuild ==
  /\ f_pc = "ready"
  /\ f_out' = enhanced_build_fuzzers(f_in)
  /\ f_pc' = "built"
  /\ UNCHANGED <<f_in, NotFunction>>

WReproduce ==
  /\ f_pc = "ready"
  /\ f_out' = enhanced_reproduce(f_in)
  /\ f_pc' = "reproduced"
  /\ UNCHANGED <<f_in, NotFunction>>

\* C26: a wrapped build or reproduce operation is called exactly once with the
\* caller's arguments and the wrapper returns the operation's result, with
\* intelligence enabled or disabled and also when the intelligence setup or
\* the crash analysis fails.
C26_WrapperTransparent ==
  f_pc \in {"built", "reproduced"} =>
    /\ f_out.calls = 1
    /\ f_out.passed = [args |-> f_in.args, kwargs |-> f_in.kwargs]
    /\ f_out.raised = ""
    /\ f_out.returned = f_in.result

(***************************************************************************)
(* The blockers and the compliance report of one parsed audit              *)
(***************************************************************************)

MaxSections == 3

AuditSections ==
  [titled : BOOLEAN, severity : Severity \cup {"Critical", "none"}]

ParsedAudits ==
  [exists : {TRUE}, sections : UNION {[1..n -> AuditSections] : n \in 0..MaxSections}]

AInit == f_pc = "ready" /\ f_in \in ParsedAudits /\ f_out = <<>>

\* create_deployment_blockers and generate_compliance_report of the audit
\* parse_markdown_audit returns
AReport ==
  /\ f_pc = "ready"
  /\ LET vulns == extract_vulnerabilities(f_in)
     IN  f_out' = [ vulnerabilities |-> vulns,
                    blockers |-> create_deployment_blockers(vulns),
                    report   |-> generate_compliance_report(vulns) ]
  /\ f_pc' = "reported"
  /\ UNCHANGED <<f_in, NotFunction>>

\* the numbers of the sections that hold a CRITICAL or HIGH vulnerability
Blocking(file) ==
  {i \in DOMAIN file.sections :
     file.sections[i].titled /\ file.sections[i].severity \in {"CRITICAL", "HIGH"}}

\* C28: the deployment blockers of a parsed audit are, in document order, one
\* blocker BLOCKER-<vulnerability id> for each CRITICAL or HIGH vulnerability
\* and nothing else, and the compliance verdict is FAILED iff there is a
\* blocker, PASSED otherwise.
C28_BlockersAndVerdict ==
  f_pc = "reported" =>
    /\ Len(f_out.blockers) = Cardinality(Blocking(f_in))
    /\ \E at \in [DOMAIN f_out.blockers -> Blocking(f_in)] :
         /\ \A k, l \in DOMAIN f_out.blockers : k < l => at[k] < at[l]
         /\ \A k \in DOMAIN f_out.blockers :
              /\ f_out.blockers[k].id = "BLOCKER-VULN-00" \o ToString(at[k])
              /\ f_out.blockers[k].severity = f_in.sections[at[k]].severity
    /\ f_out.report.compliance_status \in {"FAILED", "PASSED"}
    /\ f_out.report.compliance_status = "FAILED" <=> f_out.blockers # <<>>

\* an audit with a LOW, a HIGH and a CRITICAL vulnerability: two blockers
C28_Witness ==
  /\ f_pc = "reported"
  /\ f_in.sections = <<Section(TRUE, "LOW"), Section(TRUE, "HIGH"),
                       Section(TRUE, "CRITICAL")>>
  /\ Len(f_out.blockers) = 2
  /\ f_out.blockers[1].id = "BLOCKER-VULN-002"
  /\ f_out.report.compliance_status = "FAILED"

\* the numbers of the sections that were parsed
Parsed(file) == {i \in DOMAIN file.sections : file.sections[i].titled}

\* the k-th least number of a set of numbers
Kth(S, k) == CHOOSE x \in S : Cardinality({y \in S : y <= x}) = k

\* the original statement of C35: the vulnerabilities of a parsed audit are
\* VULN-001, VULN-002, ... by their place among the parsed sections, and a
\* skipped section leaves no gap
C35_NumberedAmongParsed ==
  f_pc = "reported" =>
    /\ Len(f_out.vulnerabilities) = Cardinality(Parsed(f_in))
    /\ \A k \in DOMAIN f_out.vulnerabilities :
         f_out.vulnerabilities[k].id = vuln_id(k)

\* C35: a skipped section does not end the parsing of the audit: every other
\* section gives a vulnerability, in order; each carries the identifier
\* VULN-%03d of the 1-based place of its section among all sections, so a
\* skipped section leaves a gap in the numbering
C35_NumberedAmongSections ==
  f_pc = "reported" =>
    /\ Len(f_out.vulnerabilities) = Cardinality(Parsed(f_in))
    /\ \A k \in DOMAIN f_out.vulnerabilities :
         f_out.vulnerabilities[k].id = vuln_id(Kth(Parsed(f_in), k))

\* an audit whose second section of three is skipped: VULN-001 and VULN-003
C35_Witness ==
  /\ f_pc = "reported"
  /\ Len(f_in.sections) = 3
  /\ Parsed(f_in) = {1, 3}
  /\ Len(f_out.vulnerabilities) = 2
  /\ f_out.vulnerabilities[1].id = "VULN-001"
  /\ f_out.vulnerabilities[2].id = "VULN-003"

(***************************************************************************)
(* Construction of the engine (lean_crash_analyzer.py, __init__)           *)
(* The input is the config argument, the EMBEDDING_BUDGET_DAILY variable,  *)
(* and the daily-cost file and the cache file of the cache directory.      *)
(* Money is in units of cost_per_embedding.                                *)
(***************************************************************************)
\* the daily-cost files: none, one that is no JSON, one without an entry for
\* today, one with today's entry
CostFiles ==
  {[kind |-> "absent", today |-> 0], [kind |-> "invalid", today |-> 0],
   [kind |-> "other days", today |-> 0]}
  \cup {[kind |-> "today", today |-> c] : c \in 0..MaxBudget}

\* _load_daily_cost of an engine that has the attribute cache_dir
daily_cost_of(file) == IF file.kind = "today" THEN file.today ELSE 0

\* a constructor that assigns cache_dir before it loads the cost
assigned_before_load_with_cache_dir ==
  {"config", "daily_budget", "cost_per_embedding", "cache_dir"}

\* the attributes __init__ has assigned when it calls _load_daily_cost
assigned_before_load == AssignedBeforeLoad

\* float(os.environ.get('EMBEDDING_BUDGET_DAILY', '2.00')) raises on a text
\* that is no number
BudgetTexts == {"unset", "5", "abc"}

\* __init__: the exception it raises ("none" if it returns) and the running
\* daily cost of the engine it leaves
engine_init(in) ==
  IF in.budget = "abc" THEN [raised |-> "ValueError", current_daily_cost |-> 0]
  ELSE IF load_daily_cost(assigned_before_load) = "AttributeError"
    THEN [raised |-> "AttributeError", current_daily_cost |-> 0]
  ELSE IF in.cache_dir = "no parent"
    THEN [raised |-> "FileNotFoundError", current_daily_cost |-> 0]
  ELSE [raised |-> "none", current_daily_cost |-> daily_cost_of(in.cost_file)]

\* the constructions: config None, a config without cache_dir, a config with
\* a custom cache_dir; the cache directory exists, can be made, or lies in a
\* directory that does not exist
Constructions ==
  [ config    : {"None", "default cache_dir", "custom cache_dir"},
    budget    : BudgetTexts,
    cache_dir : {"exists", "missing", "no parent"},
    cost_file : CostFiles ]

NInit ==
  /\ f_pc = "ready"
  /\ f_in \in {c \in Constructions :
                c.cache_dir # "exists" => c.cost_file.kind = "absent"}
  /\ f_out = <<>>

\* LeanEmbeddingIntelligence(config)
NConstruct ==
  /\ f_pc = "ready"
  /\ f_out' = engine_init(f_in)
  /\ f_pc' = "constructed"
  /\ UNCHANGED <<f_in, NotFunction>>

\* C32: constructing an engine succeeds and sets the running daily cost to
\* today's entry of the daily-cost file of the cache directory, or to 0 if
\* the file or the entry is absent
C32_ConstructionLoadsCost ==
  f_pc = "constructed" /\ f_in.budget # "abc" /\ f_in.cache_dir # "no parent" =>
    /\ f_out.raised = "none"
    /\ f_out.current_daily_cost = daily_cost_of(f_in.cost_file)

\* every construction raises
C32_ConstructionRaises ==
  f_pc = "constructed" => f_out.raised # "none"

(***************************************************************************)
(* Engine processes that share one cache directory                         *)
(* (lean_crash_analyzer.py: _load_daily_cost, _generate_new_embedding      *)
(* lines 245-246, _save_daily_cost, _should_use_embeddings)                *)
(* Two processes run engines on the same cache directory; each is an       *)
(* instance whose construction got past _load_daily_cost. Money is in      *)
(* units of cost_per_embedding, dates are day numbers.                     *)
(***************************************************************************)
\* the processes, and the days the processes run over
Processes == {1, 2}

MaxDays == 2

Days == 1..MaxDays

NoData == [today |-> 0, data |-> [d \in {} |-> 0]]

\* no engine process
DIdle ==
  /\ d_day = 0
  /\ d_budget = 0
  /\ d_file = [d \in {} |-> 0]
  /\ d_pc = [p \in Processes |-> "idle"]
  /\ d_cost = [p \in Processes |-> 0]
  /\ d_data = [p \in Processes |-> NoData]
  /\ d_spent = [d \in {} |-> 0]

\* the cost file as _load_daily_cost sees it on a date
CostFileOn(file, day) ==
  IF day \in DOMAIN file THEN [kind |-> "today", today |-> file[day]]
  ELSE [kind |-> "other days", today |-> 0]

\* a _save_daily_cost that adds the cost of one embedding to the entry of
\* the file
write_today_added(data, today, cost) ==
  [d \in DOMAIN data \cup {today} |->
     IF d = today THEN (IF d \in DOMAIN data THEN data[d] + 1 ELSE 1)
     ELSE data[d]]

\* data[today] = self.current_daily_cost, and json.dump(data, f)
write_today(data, today, cost) ==
  [d \in DOMAIN data \cup {today} |-> IF d = today THEN cost ELSE data[d]]

\* the first condition of _should_use_embeddings that reads the cost
within_budget(cost, budget) == cost < budget

\* the cost paid on a date, by all processes
SpentOn(day) == d_spent[day][0] + d_spent[day][1] + d_spent[day][2]

\* before any engine is constructed: the file has no entry, or the entry of
\* what earlier processes paid today
DInit ==
  /\ d_day = 1
  /\ d_budget \in 1..MaxBudget
  /\ d_file \in {[d \in {} |-> 0]} \cup {[d \in {1} |-> c] : c \in 0..1}
  /\ d_pc = [p \in Processes |-> "none"]
  /\ d_cost = [p \in Processes |-> 0]
  /\ d_data = [p \in Processes |-> NoData]
  /\ d_spent = [d \in Days |-> [q \in 0..2 |->
                  IF q = 0 /\ d \in DOMAIN d_file THEN d_file[d] ELSE 0]]

\* __init__ of process p: self.current_daily_cost = self._load_daily_cost()
DConstruct(p) ==
  /\ d_pc[p] = "none"
  /\ d_cost' = [d_cost EXCEPT ![p] = daily_cost_of(CostFileOn(d_file, d_day))]
  /\ d_pc' = [d_pc EXCEPT ![p] = "ready"]
  /\ UNCHANGED <<d_day, d_budget, d_file, d_data, d_spent, NotCostFile>>

\* an analysis of process p whose paid step gets a vector:
\* self.current_daily_cost += self.cost_per_embedding (line 245)
DPay(p) ==
  /\ d_pc[p] = "ready"
  /\ within_budget(d_cost[p], d_budget)
  /\ d_cost' = [d_cost EXCEPT ![p] = @ + 1]
  /\ d_spent' = [d_spent EXCEPT ![d_day][p] = @ + 1]
  /\ d_pc' = [d_pc EXCEPT ![p] = "paid"]
  /\ UNCHANGED <<d_day, d_budget, d_file, d_data, NotCostFile>>

\* _save_daily_cost of process p, up to json.load: today and data
DSaveRead(p) ==
  /\ d_pc[p] = "paid"
  /\ d_data' = [d_data EXCEPT ![p] = [today |-> d_day, data |-> d_file]]
  /\ d_pc' = [d_pc EXCEPT ![p] = "read"]
  /\ UNCHANGED <<d_day, d_budget, d_file, d_cost, d_spent, NotCostFile>>

\* _save_daily_cost of process p, from data[today] = ... to json.dump
DSaveWrite(p) ==
  /\ d_pc[p] = "read"
  /\ d_file' = write_today(d_data[p].data, d_data[p].today, d_cost[p])
  /\ d_data' = [d_data EXCEPT ![p] = NoData]
  /\ d_pc' = [d_pc EXCEPT ![p] = "ready"]
  /\ UNCHANGED <<d_day, d_budget, d_cost, d_spent, NotCostFile>>

\* midnight
DMidnight ==
  /\ d_day < MaxDays
  /\ d_day' = d_day + 1
  /\ UNCHANGED <<d_budget, d_file, d_pc, d_cost, d_data, d_spent, NotCostFile>>

DNext ==
  \/ \E p \in Processes : DConstruct(p)
  \/ \E p \in Processes : DPay(p)
  \/ \E p \in Processes : DSaveRead(p)
  \/ \E p \in Processes : DSaveWrite(p)
  \/ DMidnight

OneEngine == d_pc[1] = "ready" /\ d_pc[2] = "none"

C39_WithinOneDay ==
  OneEngine /\ d_day = 1 =>
    /\ \A d \in DOMAIN d_file : d_file[d] = SpentOn(d)
    /\ within_budget(d_cost[1], d_budget) <=> within_budget(SpentOn(d_day), d_budget)

(***************************************************************************)
(* The telemetry emitter (gtm_emitter.py, emit_embedding_event)            *)
(* The input tells what each step of the call meets: the output directory  *)
(* (it exists, can be made, or cannot be made), the scores of the analysis *)
(* (numbers, a text that is no number, None), the protobuf module (not     *)
(* importable, without the class EmbeddingEvent, usable, or refusing a     *)
(* field), and the two writes (done, open fails, write fails after open).  *)
(***************************************************************************)
Emissions ==
  [ out_dir    : {"exists", "creatable", "blocked"},
    scores     : {"numbers", "text", "None"},
    proto      : {"unavailable", "no class", "usable", "setattr raises"},
    pb_write   : {"done", "open fails", "write fails"},
    json_write : {"done", "open fails", "write fails"} ]

\* _build_event_dict: float(analysis.get("priority_score", 0.0)) and the
\* other conversions of the scores
build_event_dict(scores) ==
  CASE scores = "numbers" -> "none"
    [] scores = "text" -> "ValueError"
    [] scores = "None" -> "TypeError"

\* emit_embedding_event: the exception it raises ("none" if it returns), the
\* file whose path it returns, and the event files it created
emit_embedding_event(in) ==
  LET pb == IF in.proto = "usable" /\ in.pb_write = "write fails"
              THEN {"pb"} ELSE {}
      js == IF in.json_write = "write fails" THEN {"json"} ELSE {}
  IN  IF in.out_dir = "blocked"
        THEN [raised |-> "OSError", returned |-> "None", files |-> {}]
      ELSE IF build_event_dict(in.scores) # "none"
        THEN [raised |-> build_event_dict(in.scores), returned |-> "None",
              files |-> {}]
      ELSE IF in.proto = "usable" /\ in.pb_write = "done"
        THEN [raised |-> "none", returned |-> "pb", files |-> {"pb"}]
      ELSE IF in.json_write = "done"
        THEN [raised |-> "none", returned |-> "json", files |-> pb \cup {"json"}]
      ELSE [raised |-> "none", returned |-> "None", files |-> pb \cup js]

GInit == f_pc = "ready" /\ f_in \in Emissions /\ f_out = <<>>

\* one call of emit_embedding_event
GEmit ==
  /\ f_pc = "ready"
  /\ f_out' = emit_embedding_event(f_in)
  /\ f_pc' = "emitted"
  /\ UNCHANGED <<f_in, NotFunction>>

\* C34: emit_embedding_event never raises; when the output directory cannot
\* be made, the event cannot be built or the file cannot be written it
\* returns None; otherwise it returns the path of the one event file it wrote
C34_EmitNeverRaises ==
  f_pc = "emitted" =>
    /\ f_out.raised = "none"
    /\ f_in.out_dir = "blocked" \/ f_in.scores # "numbers" =>
         f_out.returned = "None"
    /\ f_out.returned # "None" => f_out.files = {f_out.returned}

\* once the directory is there and the event is built, the call does not
\* raise, and it returns None exactly if no event file could be written
C34_GuardedPart ==
  f_pc = "emitted" /\ f_in.out_dir # "blocked" /\ f_in.scores = "numbers" =>
    /\ f_out.raised = "none"
    /\ f_out.returned = "None" <=>
         /\ ~(f_in.proto = "usable" /\ f_in.pb_write = "done")
         /\ f_in.json_write # "done"
    /\ f_out.returned # "None" => f_out.returned \in f_out.files

(***************************************************************************)
(* The delegations of the Enhanced deployer (enhanced-master-deploy.py,    *)
(* run_compliance_checks, run_build_validation, deploy_projects)           *)
(* The input tells the stage, whether self.master_deployer is an object,   *)
(* the dry_run setting, projects_dir, and what the Master deployer's       *)
(* operation of that stage does for the projects directory when it is run. *)
(***************************************************************************)
Delegations ==
  [ stage           : {"compliance", "build", "deploy"},
    master_deployer : BOOLEAN,
    dry_run         : BOOLEAN,
    projects_dir    : {"projects", "other"},
    master          : {"true", "false", "raises"} ]

\* one of the three methods: the value it returns, and whether the Master
\* deployer's operation ran on the projects
delegation(in) ==
  IF ~in.master_deployer THEN [returned |-> TRUE, master_ran |-> FALSE]
  ELSE IF in.stage = "deploy" /\ in.dry_run
    THEN [returned |-> TRUE, master_ran |-> FALSE]
  ELSE IF e_master_call(in.stage) = "raises"
    THEN [returned |-> FALSE, master_ran |-> FALSE]
  ELSE [returned |-> in.master = "true", master_ran |-> TRUE]

JInit == f_pc = "ready" /\ f_in \in Delegations /\ f_out = <<>>

\* one call of run_compliance_checks, run_build_validation or deploy_projects
JDelegate ==
  /\ f_pc = "ready"
  /\ f_out' = delegation(f_in) @@ [agrees |-> e_delegate(f_in.master_deployer, f_in.stage)]
  /\ f_pc' = "delegated"
  /\ UNCHANGED <<f_in, NotFunction>>

\* C36: each of the three methods returns success exactly when the Master
\* deployer's operation of that stage succeeds for the projects directory,
\* and returns success without touching a project when there is no Master
\* deployer object (a dry run of deploy_projects aside)
C36_DelegatesToMaster ==
  f_pc = "delegated" /\ ~(f_in.stage = "deploy" /\ f_in.dry_run) =>
    IF f_in.master_deployer
      THEN /\ f_out.master_ran
           /\ f_out.returned <=> f_in.master = "true"
      ELSE f_out.returned /\ ~f_out.master_ran

\* the Master deployer's operation never runs: without a Master deployer
\* object and in a dry run of deploy_projects the method returns success,
\* otherwise it returns failure
C36_NeverReachesMaster ==
  f_pc = "delegated" =>
    /\ ~f_out.master_ran
    /\ f_out.returned <=>
         ~f_in.master_deployer \/ (f_in.stage = "deploy" /\ f_in.dry_run)
    /\ ~(f_in.stage = "deploy" /\ f_in.dry_run) =>
         f_out.returned = f_out.agrees

(***************************************************************************)
(* Full runs of the Master and the Comprehensive deployer: properties      *)
(***************************************************************************)
\* C38: the deployment of a project leaves the working directory of the
\* process as it was before it, on success and on failure (Master and
\* Comprehensive deployer), so that no later project of the order fails to
\* deploy because a relative project path is no longer found
C38_DeployKeepsWorkingDirectory ==
  /\ m_cwd = "orig"
  /\ c_cwd = "orig"

\* a successful deployment of the Master deployer leaves the working
\* directory as it was
C38_MasterSuccessKeepsWorkingDirectory ==
  [][\A p \in Range(m_projects) :
       m_status[p] # "online" /\ m_status'[p] = "online" => m_cwd' = m_cwd]_vars

\* a project was not deployed because an earlier deployment left the process
\* inside another project directory
C38_LaterDeploymentAffected ==
  \/ /\ m_pc = "deploy" /\ m_i <= Len(m_order)
     /\ ~m_skip_deploy(m_status[m_order[m_i]])
     /\ MChdirFails
  \/ /\ c_pc = "deploy" /\ c_deploy_runs /\ c_i <= Len(c_order)
     /\ c_deploy_applies(c_status[c_deploy_target(c_order, c_i)])
     /\ ~c_config.dry_run
     /\ CChdirFails

(***************************************************************************)
\* a full run of the Master deployer returned False
m_aborted == m_mode = "full" /\ m_result = "false"

\* run_comprehensive_deployment returned False or raised
c_aborted == c_result \in {"false", "raised"}

\* C13: when a full run of the Master or of the Comprehensive deployer has
\* aborted, its report has been written
C13_AbortedRunWroteReport ==
  /\ m_aborted => m_report >= 1
  /\ c_aborted => c_report >= 1

\* the exit status of main after run_comprehensive_deployment:
\* sys.exit(0 if success else 1); an exception that escapes main ends the
\* interpreter with status 1
c_exit_status == IF c_result = "true" THEN 0 ELSE 1

\* the statuses of a project that failed a stage
FailedStatuses == {"COMPLIANCE_FAILED", "BUILD_FAILED", "DEPLOYMENT_FAILED"}

\* C17: a run of the Comprehensive deployer that is over with a project in a
\* failed status exits with status 1 and has written its report
C17_FailedProjectExitsOne ==
  (c_pc = "done" /\ \E p \in Range(c_projects) : c_status[p] \in FailedStatuses)
    => c_exit_status = 1 /\ c_report >= 1

\* some discovered project depends on itself through dependencies among the
\* discovered projects
c_cyclic == ~Acyclic(Range(c_projects), c_config.projects.dependencies)

\* C18: when the dependencies among the discovered projects hold a cycle, the
\* Comprehensive run never enters the deployment step and executes no
\* version-control command, and once the ordering step is behind the run has
\* ended with the circular-dependency error
C18_CycleStopsBeforeDeploy ==
  c_cyclic =>
    /\ c_cmdlog = <<>>
    /\ "deploy" \notin c_started
    /\ \A p \in Range(c_projects) : "READY" \notin Range(c_history[p])
    /\ c_pc \notin {"start", "security", "compliance", "as_completed", "build",
                    "order"}
         => c_pc = "done" /\ c_result = "raised" /\ c_order = <<>>

\* the ordering step raised on a cycle although a project had passed build
\* validation and deployment was enabled, not skipped and no dry run
C18_Witness ==
  /\ c_cyclic
  /\ c_pc = "done" /\ c_result = "raised"
  /\ ~c_args.skip_deploy /\ ~c_config.dry_run
  /\ \E p \in Range(c_projects) : c_status[p] = "BUILD_VALIDATED"

RECURSIVE IsSubsequence(_, _)
\* s is t with some elements left out
IsSubsequence(s, t) ==
  IF s = <<>> THEN TRUE
  ELSE IF t = <<>> THEN FALSE
  ELSE IF Head(s) = Head(t) THEN IsSubsequence(Tail(s), Tail(t))
  ELSE IsSubsequence(s, Tail(t))

\* C19: in the Master and in the Comprehensive deployer the order is computed
\* while nothing has been deployed and is not touched afterwards; each step
\* deploys at most one project, only in the deployment phase, and adds it at
\* the end of the projects deployed so far; and the projects deployed are a
\* subsequence of the computed order
C19_DeployInComputedOrder ==
  [][ /\ m_order' # m_order => m_cmdlog = <<>> /\ m_cmdlog' = <<>>
      /\ m_cmdlog' # m_cmdlog =>
           /\ m_pc = "deploy" /\ m_order' = m_order
           /\ \E p \in Range(m_order) : m_cmdlog' = Append(m_cmdlog, p)
      /\ IsSubsequence(m_cmdlog', m_order')
      /\ c_order' # c_order => c_cmdlog = <<>> /\ c_cmdlog' = <<>>
      /\ c_cmdlog' # c_cmdlog =>
           /\ c_pc = "deploy" /\ c_order' = c_order
           /\ \E p \in Range(c_order) : c_cmdlog' = Append(c_cmdlog, p)
      /\ IsSubsequence(c_cmdlog', c_order')
    ]_vars

\* a Comprehensive run is over that deployed the first and the third project
\* of a computed order of three and left the second out
C19_Witness ==
  /\ c_pc = "done"
  /\ Len(c_order) = 3
  /\ c_cmdlog = <<c_order[1], c_order[3]>>

(***************************************************************************)
(* Enhanced deployer: properties                                           *)
(***************************************************************************)
\* C14: a run of the Enhanced deployer's run_full_deployment that is over,
\* with success or after a failing stage, has written the final report
C14_EveryRunWritesReport == e_pc = "done" => e_report >= 1

\* the stages of run_full_deployment after the security gate, in their order
EStages == <<"compliance", "build", "deploy">>

\* the stage is enabled and not skipped
EStageRuns(stage) ==
  CASE stage = "compliance" -> ~e_args.skip_compliance /\ e_config.compliance_enabled
    [] stage = "build" -> ~e_args.skip_build /\ e_config.deployment_enabled
    [] stage = "deploy" -> ~e_args.skip_deploy /\ e_config.deployment_enabled

\* the step starts stage number k of EStages
EStarts(k) == EStages[k] \notin e_started /\ EStages[k] \in e_started'

\* C15: a stage is started only when the security gate is behind, nothing has
\* failed, every earlier enabled and unskipped stage was started and no later
\* stage was; and once the run has returned failure no stage is started and
\* the result stays failure
C15_StagesInOrder ==
  [][ /\ \A k \in DOMAIN EStages :
           EStarts(k) =>
             /\ e_pc \notin {"start", "audits"}
             /\ e_result = "none"
             /\ \A j \in 1..(k - 1) : EStageRuns(EStages[j]) => EStages[j] \in e_started
             /\ \A j \in k..Len(EStages) : EStages[j] \notin e_started
             /\ e_started' = e_started \cup {EStages[k]}
      /\ e_result = "false" =>
           e_started' = e_started /\ e_result' = "false" /\ e_pc' = "done"
      /\ e_pc = "audits" => e_started' = {}
    ]_vars

\* the security gate let the run through, the compliance stage was skipped,
\* build validation was started and failed, and deployment, though enabled
\* and not skipped, was never started
C15_Witness ==
  /\ e_pc = "done" /\ e_result = "false"
  /\ e_started = {"build"}
  /\ e_security_processor /\ ~e_args.skip_security /\ e_args.audit_files # <<>>
  /\ e_f > Len(e_args.audit_files)
  /\ ~e_args.skip_deploy

\* process_security_audits was called and has returned
e_audits_returned ==
  /\ ~e_args.skip_security /\ e_config.security_audit_enabled
  /\ e_args.audit_files # <<>>
  /\ e_pc \notin {"idle", "start", "audits"}

\* process_security_audits returned False
e_audits_failed == e_audits_returned /\ e_result = "false" /\ e_started = {}

\* audit file number i makes process_security_audits fail: it yields a
\* CRITICAL blocker under block-on-CRITICAL or a HIGH blocker under
\* block-on-HIGH, or its processing raised and a security review is required
AuditTrips(i) ==
  /\ e_args.audit_files[i].exists
  /\ IF i \in e_raised THEN e_config.require_security_review
     ELSE LET blockers == create_deployment_blockers(
                            extract_vulnerabilities(e_args.audit_files[i]))
          IN  \/ /\ e_config.block_deployment_on_critical
                 /\ CountSeverity(blockers, "CRITICAL") > 0
              \/ /\ e_config.block_deployment_on_high
                 /\ CountSeverity(blockers, "HIGH") > 0

\* C16: process_security_audits returns failure exactly when some audit file
\* trips it; it then returned at the first such file, and otherwise it
\* returned success after every file was taken
C16_AuditsFailExactlyOnBlocker ==
  e_audits_returned =>
    /\ e_audits_failed <=> \E i \in DOMAIN e_args.audit_files : AuditTrips(i)
    /\ e_audits_failed =>
         /\ AuditTrips(e_f - 1)
         /\ \A j \in 1..(e_f - 2) : ~AuditTrips(j)
    /\ ~e_audits_failed => e_f = Len(e_args.audit_files) + 1

\* generate_security_report: the two counts of the final report
generate_security_report(security_audits, deployment_blockers) ==
  [ security_audits_processed |-> Len(security_audits),
    deployment_blockers       |-> Len(deployment_blockers) ]

\* the audit files of the run whose loop body in process_security_audits ran
\* to "Processed audit" without an exception
e_processed ==
  {i \in 1..(e_f - 1) : e_args.audit_files[i].exists /\ i \notin e_raised}

\* the number of blockers derived from the audit files i..e_f - 1 that were
\* processed
RECURSIVE e_blockers_from(_)
e_blockers_from(i) ==
  IF i >= e_f THEN 0
  ELSE (IF i \in e_processed
          THEN Len(create_deployment_blockers(
                     extract_vulnerabilities(e_args.audit_files[i])))
          ELSE 0) + e_blockers_from(i + 1)

\* the run is over and the final report was written
e_report_written == e_pc = "done" /\ e_report = 1

\* C40: in the final report of the Enhanced deployer the audit count is the
\* number of audit files processed in the run, and the blocker count is the
\* number of blockers derived from those files
C40_ReportCounts ==
  e_report_written =>
    LET report == generate_security_report(e_security_audits, e_deployment_blockers)
    IN  /\ report.security_audits_processed = Cardinality(e_processed)
        /\ report.deployment_blockers = e_blockers_from(1)

\* the blocker count of the final report is the number of blockers derived
\* from the processed files
C40_BlockerCountIsTotal ==
  e_report_written =>
    generate_security_report(e_security_audits, e_deployment_blockers)
      .deployment_blockers = e_blockers_from(1)

\* the audit count of the final report is 0 in every run
C40_AuditCountIsZero ==
  e_report_written =>
    generate_security_report(e_security_audits, e_deployment_blockers)
      .security_audits_processed = 0

\* a report written after an audit file with blockers was processed
C40_ProcessedAndReported ==
  /\ e_report_written
  /\ e_processed # {}
  /\ e_blockers_from(1) > 0


(***************************************************************************)
(* Specifications                                                          *)
(***************************************************************************)
InitMaster == MInit /\ CIdle /\ EIdle /\ LIdle /\ HIdle /\ KIdle /\ DIdle /\ FIdle

SpecMaster == InitMaster /\ [][MNext]_vars

InitComprehensive == CInit /\ MIdle /\ EIdle /\ LIdle /\ HIdle /\ KIdle /\ DIdle /\ FIdle

SpecComprehensive == InitComprehensive /\ [][CNext]_vars

InitEnhanced == EInit /\ MIdle /\ CIdle /\ LIdle /\ HIdle /\ KIdle /\ DIdle /\ FIdle

InitGate == ((EInit /\ CIdle) \/ (CInitGate /\ EIdle)) /\ MIdle /\ LIdle /\ HIdle /\ KIdle /\ DIdle /\ FIdle

\* either orchestrator that takes audit files is run
GateNext == ENext \/ CNext

SpecGate == InitGate /\ [][GateNext]_vars

SpecEnhanced == InitEnhanced /\ [][ENext]_vars

InitEngine == LInit /\ MIdle /\ CIdle /\ EIdle /\ HIdle /\ KIdle /\ DIdle /\ FIdle

SpecEngine == InitEngine /\ [][LNext]_vars

ClustersNext == LObserve

SpecClusters == InitEngine /\ [][ClustersNext]_vars

InitHeader == HInit /\ MIdle /\ CIdle /\ EIdle /\ LIdle /\ KIdle /\ DIdle /\ FIdle

SpecHeader == InitHeader /\ [][HApply]_vars

InitRisk == RInit /\ MIdle /\ CIdle /\ EIdle /\ LIdle /\ HIdle /\ KIdle /\ DIdle

RiskNext == RApply

SpecRisk == InitRisk /\ [][RiskNext]_vars

InitTree == TInit /\ MIdle /\ CIdle /\ EIdle /\ LIdle /\ HIdle /\ KIdle /\ DIdle

TreeNext == TCheckFile \/ TCheckProject

SpecTree == InitTree /\ [][TreeNext]_vars

InitProcessor == PInit /\ MIdle /\ CIdle /\ EIdle /\ LIdle /\ HIdle /\ KIdle /\ DIdle

ProcessorNext == PProcess \/ PMain

SpecProcessor == InitProcessor /\ [][ProcessorNext]_vars

InitWrapper == WInit /\ MIdle /\ CIdle /\ EIdle /\ LIdle /\ HIdle /\ KIdle /\ DIdle

WrapperNext == WBuild \/ WReproduce

SpecWrapper == InitWrapper /\ [][WrapperNext]_vars

InitAudit == AInit /\ MIdle /\ CIdle /\ EIdle /\ LIdle /\ HIdle /\ KIdle /\ DIdle

AuditNext == AReport

SpecAudit == InitAudit /\ [][AuditNext]_vars

InitConstruct == NInit /\ MIdle /\ CIdle /\ EIdle /\ LIdle /\ HIdle /\ KIdle /\ DIdle

ConstructNext == NConstruct

SpecConstruct == InitConstruct /\ [][ConstructNext]_vars

InitCostFile == DInit /\ MIdle /\ CIdle /\ EIdle /\ LIdle /\ HIdle /\ KIdle /\ FIdle

SpecCostFile == InitCostFile /\ [][DNext]_vars

InitEmit == GInit /\ MIdle /\ CIdle /\ EIdle /\ LIdle /\ HIdle /\ KIdle /\ DIdle

EmitNext == GEmit

SpecEmit == InitEmit /\ [][EmitNext]_vars

InitDelegate == JInit /\ MIdle /\ CIdle /\ EIdle /\ LIdle /\ HIdle /\ KIdle /\ DIdle

DelegateNext == JDelegate

SpecDelegate == InitDelegate /\ [][DelegateNext]_vars

InitPhase == KInit /\ MIdle /\ CIdle /\ EIdle /\ LIdle /\ HIdle /\ FIdle /\ DIdle

SpecPhase == InitPhase /\ [][KNext]_vars

InitDeployers ==
  ((MInit /\ CIdle) \/ (CInit /\ MIdle)) /\ EIdle /\ LIdle /\ HIdle /\ KIdle /\ DIdle /\ FIdle

\* either deployer that orders and deploys projects is run
DeployersNext == MNext \/ CNext

SpecDeployers == InitDeployers /\ [][DeployersNext]_vars

====
